---------------------------- MODULE Spec2Model ----------------------------
(***************************************************************************)
(* A model of crates/postgres/src/lib.rs: the PostgreSQL persistence       *)
(* backend (lease protocol, MVCC write path, document log stream).         *)
(*                                                                         *)
(* The database is five tables, each a set of rows.  A transaction keeps   *)
(* its uncommitted changes in `staged` (rows removed, rows added, per      *)
(* table) and holds the row locks of the primary keys it touched until it  *)
(* commits or rolls back; a statement that needs a row another open        *)
(* transaction has locked waits, i.e. its action is not enabled.           *)
(***************************************************************************)
EXTENDS Integers, Sequences, FiniteSets, TLC

(* ------------------------------ bounds -------------------------------- *)

\* number of processes, each constructing one PostgresPersistence
NumProcs == 2
\* SystemTime::now() yields a value in 1..MaxClock
MaxClock == 2
\* timestamps of the documents and index entries a writer stages
MaxDocTs == 2
\* longest `documents` vector handed to one write()
MaxWriteDocs == 2

Procs == 1..NumProcs

VARIABLES
    leases,               \* table leases: rows [id, ts]
    documents,            \* table documents
    indexes,              \* table indexes
    read_only,            \* table read_only: rows [id]
    persistence_globals,  \* table persistence_globals: rows [key, json_value]
    pc,                   \* where each process is
    acquire_ts,           \* Lease::acquire's local `ts`
    lease_ts,             \* Lease.lease_ts (0: no Lease constructed yet)
    newly_created,        \* PostgresPersistence.newly_created
    op,                   \* the Persistence method the process is inside
    advisory_done,        \* the advisory_lease_check future has completed Ok
    f_done,               \* the user function f has completed Ok
    staged,               \* the open transaction's uncommitted changes
    result,               \* how the last transact ended
    signals,              \* lease_lost_shutdown.signal() calls of the current call
    lost_once,            \* some transact of the instance has returned lease-lost
    overtaken_at_begin,   \* the lease was already overtaken when the call began
    args,                 \* the arguments of the process's latest write() call
    allow_read_only,      \* with_pool's options.allow_read_only, while it is in use
    delete_call,          \* delete()'s documents and its deleted_count, once f has run
    retry,                \* transact's retried_err and reconnected, with counts
    reader_pc,            \* where the load_documents stream of the reader is
    load_args,            \* load_documents' range, order and page_size
    last_param,           \* (last_ts_param, last_tablet_id_param, last_id_param)
    batch,                \* the entries of the page being read
    yielded,              \* the entries the stream has yielded so far
    stream,               \* where the index_scan stream of the reader is
    scan_args,            \* index_scan's arguments
    scan_pc,              \* where the producer task _index_scan_inner is
    lower,                \* the lower SqlKey bound of the next page query
    upper,                \* its upper SqlKey bound
    result_buffer,        \* results held back until their key prefix is exhausted
    scan_batch,           \* the results of the page that are still to be sent
    batch_rows,           \* the number of rows of the page
    chan,                 \* the messages on the channel to the consumer
    page_rx,              \* the oneshot channel of the latest PageBoundary
    emitted,              \* the (key, document) pairs the stream has yielded
    sql_statements,       \* stats.sql_statements: the page queries issued
    prev_pc,              \* where the previous_revisions call of the reader is
    prev_ids,             \* previous_revisions' ids
    prev_result,          \* previous_revisions' result map
    prev_statements,      \* previous_revisions' result_futures: the statements it issued
    exact_pc,             \* where the previous_revisions_of_documents call is
    exact_ids,            \* previous_revisions_of_documents' ids
    exact_result,         \* previous_revisions_of_documents' result map
    exact_statements,     \* previous_revisions_of_documents' result_futures
    pipe_started,         \* the futures the buffered stream of the call has started
    pipe_taken,           \* those of them whose rows it has handed over
    import_pc,            \* where the import_documents_batch call is
    import_by,            \* the instance it was called on (0: no call)
    import_stream,        \* import_documents_batch's stream of chunks
    import_next,          \* the position in it of the chunk next() returns next
    copy_writer,          \* the rows written to the COPY that is open
    batch_count,          \* import_documents_batch's batch_count
    copies                \* the number of rows of each COPY finished so far

dbvars == <<leases, documents, indexes, read_only, persistence_globals>>
procvars == <<pc, acquire_ts, lease_ts, newly_created, op, advisory_done,
              f_done, staged, result, signals, lost_once, overtaken_at_begin, args,
              allow_read_only, delete_call, retry>>
loadvars == <<reader_pc, load_args, last_param, batch, yielded>>
scanvars == <<stream, scan_args, scan_pc, lower, upper, result_buffer, scan_batch,
              batch_rows, chan, page_rx, emitted, sql_statements>>
prevvars == <<prev_pc, prev_ids, prev_result, prev_statements, exact_pc, exact_ids, exact_result,
             exact_statements, pipe_started, pipe_taken>>
copyvars == <<import_pc, import_by, import_stream, import_next, copy_writer, batch_count,
             copies>>
rdvars == <<loadvars, scanvars, prevvars, copyvars>>
vars == <<dbvars, procvars, rdvars>>

(* ------------------------------ values -------------------------------- *)

\* Option<T>: None is the empty sequence, Some(x) the one-element sequence
None == << >>
Some(x) == << x >>

\* JsonValue::Null.to_string()
JsonNull == << "null" >>
\* ConvexValue::json_serialize: the JSON text of a document body
json_serialize(v) == << "json", v >>


(* ------------------------- rows and parameters ------------------------- *)

\* common::index::MAX_INDEX_KEY_PREFIX_LEN is 2500 bytes; keys here are short
\* sequences, so the split point is scaled down with them
MAX_INDEX_KEY_PREFIX_LEN == 2

\* the smaller of two numbers
Min(a, b) == IF a <= b THEN a ELSE b

\* the bytes of s in reverse order
RECURSIVE Reverse(_)
Reverse(s) == IF s = << >> THEN << >> ELSE Append(Reverse(Tail(s)), Head(s))

\* Sha256::hash(key): an injective digest whose order is unrelated to the
\* order of the keys
Sha256(key) == Reverse(key)

\* SplitKey::new(key): the first MAX_INDEX_KEY_PREFIX_LEN bytes, and the rest
\* when there is one
SplitKey(key) ==
    [ prefix |-> SubSeq(key, 1, Min(Len(key), MAX_INDEX_KEY_PREFIX_LEN)),
      suffix |-> IF Len(key) > MAX_INDEX_KEY_PREFIX_LEN
                 THEN Some(SubSeq(key, MAX_INDEX_KEY_PREFIX_LEN + 1, Len(key)))
                 ELSE None ]

\* document_params: a DocumentLogEntry [ts, table_id, id, value, prev_ts] as
\* the row it is inserted as
document_params(e) ==
    [ id         |-> e.id,
      ts         |-> e.ts,
      table_id   |-> e.table_id,
      json_value |-> IF e.value = None THEN JsonNull ELSE json_serialize(e.value[1]),
      deleted    |-> (e.value = None),
      prev_ts    |-> e.prev_ts ]

\* index_params: a PersistenceIndexEntry [index_id, key, ts, value] as the row
\* it is inserted as; value is the document id (table_id, id) or None
index_params(u) ==
    [ index_id    |-> u.index_id,
      ts          |-> u.ts,
      key_prefix  |-> SplitKey(u.key).prefix,
      key_suffix  |-> SplitKey(u.key).suffix,
      key_sha256  |-> Sha256(u.key),
      deleted     |-> (u.value = None),
      table_id    |-> IF u.value = None THEN None ELSE Some(u.value[1][1]),
      document_id |-> IF u.value = None THEN None ELSE Some(u.value[1][2]) ]

\* primary keys of the five tables
DocKey(r) == << r.ts, r.table_id, r.id >>
IdxKey(r) == << r.index_id, r.key_sha256, r.ts >>
Key(tbl, r) ==
    CASE tbl = "documents" -> DocKey(r)
      [] tbl = "indexes" -> IdxKey(r)
      [] tbl = "read_only" -> << r.id >>
      [] tbl = "leases" -> << r.id >>
      [] tbl = "persistence_globals" -> << r.key >>

Keys(tbl, rows) == { Key(tbl, r) : r \in rows }

\* the rows of a parameter vector
Range(s) == { s[i] : i \in DOMAIN s }

\* two positions of a parameter vector carry the same primary key
DupKeys(tbl, rows) ==
    \E i, j \in DOMAIN rows : i < j /\ Key(tbl, rows[i]) = Key(tbl, rows[j])

(* --------------------------- SQL statements ---------------------------- *)
(* A statement is evaluated on the rows its transaction sees and yields    *)
(* [ok, del, add]: whether it succeeded, the rows it removes, the rows it  *)
(* adds.  A failed statement aborts its transaction.                       *)

Failed == [ ok |-> FALSE, del |-> {}, add |-> {} ]

\* INSERT INTO tbl ... SELECT * FROM UNNEST(...): a duplicate primary key,
\* among the new rows or with a stored one, is an error
PlainInsert(tbl, view, rows) ==
    IF DupKeys(tbl, rows) \/ Keys(tbl, Range(rows)) \cap Keys(tbl, view) # {}
    THEN Failed
    ELSE [ ok |-> TRUE, del |-> {}, add |-> Range(rows) ]

\* INSERT_DOCUMENT with ON CONFLICT DO NOTHING: the colliding rows are skipped
INSERT_DOCUMENT_SkipConflicts(view, rows) ==
    [ ok  |-> TRUE,
      del |-> {},
      add |-> { r \in Range(rows) : DocKey(r) \notin Keys("documents", view) } ]

INSERT_DOCUMENT(view, rows) == PlainInsert("documents", view, rows)

INSERT_INDEX(view, rows) == PlainInsert("indexes", view, rows)

\* INSERT_OVERWRITE_DOCUMENT setting every column of the stored row
INSERT_OVERWRITE_DOCUMENT_AllColumns(view, rows) ==
    IF DupKeys("documents", rows) THEN Failed
    ELSE [ ok  |-> TRUE,
           del |-> { r \in view : DocKey(r) \in Keys("documents", Range(rows)) },
           add |-> Range(rows) ]

\* ... ON CONFLICT (id, ts, table_id) DO UPDATE
\*     SET deleted = excluded.deleted, json_value = excluded.json_value
\* (one statement may not update a row twice)
INSERT_OVERWRITE_DOCUMENT(view, rows) ==
    IF DupKeys("documents", rows) THEN Failed
    ELSE LET old(n) == { r \in view : DocKey(r) = DocKey(n) }
         IN [ ok  |-> TRUE,
              del |-> UNION { old(n) : n \in Range(rows) },
              add |-> UNION { IF old(n) = {} THEN {n}
                              ELSE { [r EXCEPT !.deleted = n.deleted,
                                               !.json_value = n.json_value] : r \in old(n) }
                              : n \in Range(rows) } ]

\* ... ON CONFLICT ON CONSTRAINT indexes_pkey DO UPDATE SET deleted =
\*     excluded.deleted, table_id = excluded.table_id, document_id = excluded.document_id
INSERT_OVERWRITE_INDEX(view, rows) ==
    IF DupKeys("indexes", rows) THEN Failed
    ELSE LET old(n) == { r \in view : IdxKey(r) = IdxKey(n) }
         IN [ ok  |-> TRUE,
              del |-> UNION { old(n) : n \in Range(rows) },
              add |-> UNION { IF old(n) = {} THEN {n}
                              ELSE { [r EXCEPT !.deleted = n.deleted,
                                               !.table_id = n.table_id,
                                               !.document_id = n.document_id] : r \in old(n) }
                              : n \in Range(rows) } ]

\* DELETE FROM documents WHERE (table_id = $1 AND id = $2 AND ts <= $3)
\* with the parameters _document_cursor_params gives for (ts, id)
DELETE_DOCUMENT(view, d) ==
    [ ok  |-> TRUE,
      del |-> { r \in view : r.table_id = d.table_id /\ r.id = d.id /\ r.ts <= d.ts },
      add |-> {} ]

\* DELETE FROM indexes WHERE (index_id = $1 AND key_prefix = $2 AND
\* key_sha256 = $3 AND ts <= $4) with the parameters _index_cursor_params gives
DELETE_INDEX(view, e) ==
    [ ok  |-> TRUE,
      del |-> { r \in view : /\ r.index_id = e.index_id
                             /\ r.key_prefix = e.key_prefix
                             /\ r.key_sha256 = e.key_sha256
                             /\ r.ts <= e.ts },
      add |-> {} ]

\* INSERT INTO read_only (id) VALUES (1)
SET_READ_ONLY(view) == PlainInsert("read_only", view, << [id |-> 1] >>)

\* a statement that deletes nothing
UNSET_READ_ONLY_Nothing(view) == [ ok |-> TRUE, del |-> {}, add |-> {} ]

\* DELETE FROM read_only WHERE id = 1
UNSET_READ_ONLY(view) ==
    [ ok |-> TRUE, del |-> { r \in view : r.id = 1 }, add |-> {} ]

\* INSERT INTO persistence_globals (key, json_value) VALUES ($1, $2)
\* ON CONFLICT (key) DO UPDATE SET json_value = excluded.json_value
WRITE_PERSISTENCE_GLOBAL(view, key, json) ==
    [ ok  |-> TRUE,
      del |-> { r \in view : r.key = key },
      add |-> { [key |-> key, json_value |-> json] } ]

\* INIT_SQL as an upsert, which puts the ts back to 0
INIT_SQL_Reset(rows) == { r \in rows : r.id # 1 } \cup { [id |-> 1, ts |-> 0] }

\* INSERT INTO leases (id, ts) VALUES (1, 0) ON CONFLICT DO NOTHING
INIT_SQL(rows) ==
    IF \E r \in rows : r.id = 1 THEN rows ELSE rows \cup { [id |-> 1, ts |-> 0] }

\* LEASE_ACQUIRE with ts<=$1
LEASE_ACQUIRE_LE(rows, ts) == { r \in rows : r.id = 1 /\ r.ts <= ts }

\* UPDATE leases SET ts=$1 WHERE id=1 AND ts<$1: the rows it matches
LEASE_ACQUIRE(rows, ts) == { r \in rows : r.id = 1 /\ r.ts < ts }

\* the lease checks with ts>=$1, and with ts<>$1
LeaseHeld_NotOlder(rows, ts) == { r \in rows : r.id = 1 /\ r.ts >= ts }
LeaseHeld_Inverted(rows, ts) == { r \in rows : r.id = 1 /\ r.ts # ts }

\* the WHERE clause of both lease checks: id=1 AND ts=$1
LeaseHeld(rows, ts) == { r \in rows : r.id = 1 /\ r.ts = ts }

\* SELECT 1 FROM leases WHERE id=1 AND ts=$1: the rows it returns
ADVISORY_LEASE_CHECK(rows, ts) == LeaseHeld(rows, ts)

\* LEASE_PRECOND without its ts condition
LEASE_PRECOND_AnyTs(rows, ts) == { r \in rows : r.id = 1 }

\* SELECT 1 FROM leases WHERE id=1 AND ts=$1 FOR SHARE: the rows it returns
\* (and share-locks)
LEASE_PRECOND(rows, ts) == LeaseHeld(rows, ts)

\* CHECK_IS_READ_ONLY never returning a row
CHECK_IS_READ_ONLY_Never(rows) == FALSE

\* SELECT 1 FROM read_only LIMIT 1 returned a row
CHECK_IS_READ_ONLY(rows) == rows # {}

\* a check that never reports a new database
CHECK_NEWLY_CREATED_Never(rows) == FALSE

\* SELECT 1 FROM documents LIMIT 1 returned no row
CHECK_NEWLY_CREATED(rows) == rows = {}

(* ----------------------------- transactions ---------------------------- *)

Tables == { "documents", "indexes", "read_only", "persistence_globals" }

\* the committed rows of a table
Table(tbl) ==
    CASE tbl = "documents" -> documents
      [] tbl = "indexes" -> indexes
      [] tbl = "read_only" -> read_only
      [] tbl = "persistence_globals" -> persistence_globals

\* a transaction that has changed nothing
NoStaged == [ tbl \in Tables |-> [ del |-> {}, add |-> {} ] ]

\* the rows of tbl the open transaction of p sees: the committed rows and its
\* own uncommitted changes
View(p, tbl) == (Table(tbl) \ staged[p][tbl].del) \cup staged[p][tbl].add

\* the uncommitted changes st after a statement on tbl with result res
Stage(st, tbl, res) ==
    [ st EXCEPT ![tbl] = [ del |-> @.del \cup (res.del \cap Table(tbl)),
                           add |-> (@.add \ res.del) \cup res.add ] ]

\* the primary keys of tbl on which the open transaction of q holds row locks
Locked(q, tbl) == Keys(tbl, staged[q][tbl].del \cup staged[q][tbl].add)

\* a statement of p touching these keys of tbl waits for another transaction
Waits(p, tbl, keys) == \E q \in Procs \ {p} : keys \cap Locked(q, tbl) # {}

\* the table after the transaction's changes are committed
Committed(rows, st) == (rows \ st.del) \cup st.add

\* LEASE_PRECOND without FOR SHARE: nothing is ever locked
ShareLocked_Never == FALSE

\* some open transaction holds the FOR SHARE lock on the leases row
ShareLocked == \E q \in Procs : pc[q] = "locked"

(* ------------------------------- inputs -------------------------------- *)

SeqsUpTo(S, n) == UNION { [1..k -> S] : k \in 0..n }

\* a set as a vector, in some order
RECURSIVE SetToSeq(_)
SetToSeq(S) ==
    IF S = {} THEN << >>
    ELSE LET x == CHOOSE y \in S : TRUE IN << x >> \o SetToSeq(S \ {x})

\* the document log entries a writer may pass to write(): in the write-path
\* specification, and the few the lease specification needs
WriteEntries ==
    [ ts : 1..MaxDocTs, table_id : {1}, id : {1},
      value : { None, Some("A") }, prev_ts : { None, Some(1) } ]
LeaseEntries ==
    [ ts : {1}, table_id : {1}, id : {1}, value : { Some("A") }, prev_ts : { None } ]

\* the index entries a writer may pass to write()
WriteIndexEntries ==
    [ index_id : {1}, key : { << 1 >> }, ts : {1}, value : { None, Some(<< 1, 1 >>) } ]
LeaseIndexEntries ==
    [ index_id : {1}, key : { << 1 >> }, ts : {1}, value : { Some(<< 1, 1 >>) } ]

\* the (ts, id) pairs a writer may pass to delete()
DeleteArgs == [ ts : 1..MaxDocTs, table_id : {1}, id : {1} ]

\* the IndexEntry values a writer may pass to delete_index_entries()
DeleteIndexArgs ==
    { [ index_id |-> r.index_id, key_prefix |-> r.key_prefix,
        key_sha256 |-> r.key_sha256, ts |-> r.ts ] :
      r \in { index_params(u) : u \in WriteIndexEntries } }

GlobalKeys == { "k" }
GlobalValues == { "x" }

\* enum ConflictStrategy
ConflictStrategy == { "Error", "Overwrite" }

Ops == { "write", "delete", "delete_index_entries", "set_read_only",
         "write_persistence_global" }

(* ------------------------- PostgresPersistence ------------------------- *)

\* transact's locals before its first attempt to open a transaction:
\* retried_err is Some(e), reconnected, the client.transaction() calls and the
\* reconnections made so far, and whether the connection is poisoned
NoRetry == [ retried_err |-> FALSE, reconnected |-> FALSE, attempts |-> 0,
             reconnections |-> 0, poisoned |-> FALSE ]

\* no write() call made yet
NoArgs == [ documents |-> << >>, indexes |-> {}, conflict_strategy |-> "none",
            read_only |-> None ]

\* no load_documents stream opened yet
NoLoad == [ range_min |-> 0, range_max |-> 0, order |-> "none", page_size |-> 0 ]
NoCursor == << 0, 0, 0 >>

Init ==
    /\ leases = {}
    /\ documents = {}
    /\ indexes = {}
    /\ read_only = {}
    /\ persistence_globals = {}
    /\ pc = [ p \in Procs |-> "new" ]
    /\ acquire_ts = [ p \in Procs |-> 0 ]
    /\ lease_ts = [ p \in Procs |-> 0 ]
    /\ newly_created = [ p \in Procs |-> FALSE ]
    /\ op = [ p \in Procs |-> "none" ]
    /\ advisory_done = [ p \in Procs |-> FALSE ]
    /\ f_done = [ p \in Procs |-> FALSE ]
    /\ staged = [ p \in Procs |-> NoStaged ]
    /\ result = [ p \in Procs |-> "none" ]
    /\ signals = [ p \in Procs |-> 0 ]
    /\ lost_once = [ p \in Procs |-> FALSE ]
    /\ overtaken_at_begin = [ p \in Procs |-> FALSE ]
    /\ args = [ p \in Procs |-> NoArgs ]
    /\ allow_read_only = [ p \in Procs |-> FALSE ]
    /\ delete_call = [ p \in Procs |-> None ]
    /\ retry = [ p \in Procs |-> NoRetry ]
    /\ reader_pc = "idle"
    /\ load_args = NoLoad
    /\ last_param = NoCursor
    /\ batch = << >>
    /\ yielded = << >>
    /\ stream = "none"
    /\ scan_args = [ index_id |-> 0, read_timestamp |-> 0,
                     interval |-> [ start |-> << >>, end |-> None ],
                     order |-> "none", size_hint |-> 0 ]
    /\ scan_pc = "idle"
    /\ lower = [ type |-> "Unbounded", prefix |-> << >>, sha256 |-> << >> ]
    /\ upper = [ type |-> "Unbounded", prefix |-> << >>, sha256 |-> << >> ]
    /\ result_buffer = << >>
    /\ scan_batch = << >>
    /\ batch_rows = 0
    /\ chan = << >>
    /\ page_rx = "none"
    /\ emitted = << >>
    /\ sql_statements = 0
    /\ prev_pc = "idle"
    /\ prev_ids = {}
    /\ prev_result = {}
    /\ prev_statements = << >>
    /\ exact_pc = "idle"
    /\ exact_ids = {}
    /\ exact_result = {}
    /\ exact_statements = << >>
    /\ pipe_started = 0
    /\ pipe_taken = 0
    /\ import_pc = "idle"
    /\ import_by = 0
    /\ import_stream = << >>
    /\ import_next = 0
    /\ copy_writer = << >>
    /\ batch_count = 0
    /\ copies = << >>

\* with_pool is called with its options: the INIT_SQL statements, all of them
\* (skip_index_creation is off), so that documents and indexes carry their
\* primary keys
InitSql(p) ==
    /\ pc[p] = "new"
    /\ leases' = INIT_SQL(leases)
    /\ \E option \in BOOLEAN :
         allow_read_only' = [ allow_read_only EXCEPT ![p] = option ]
    /\ pc' = [ pc EXCEPT ![p] = "init_done" ]
    /\ UNCHANGED << documents, indexes, read_only, persistence_globals, acquire_ts,
                    lease_ts, newly_created, op, advisory_done, f_done, staged,
                    result, signals, lost_once, overtaken_at_begin, args, delete_call, retry >>
    /\ UNCHANGED rdvars

\* with_pool: if !options.allow_read_only && is_read_only(..) return Err(ReadOnly);
\* the options are not used after it
CheckReadOnly(p) ==
    /\ pc[p] = "init_done"
    /\ pc' = [ pc EXCEPT ![p] = IF ~allow_read_only[p] /\ CHECK_IS_READ_ONLY(read_only)
                                THEN "refused" ELSE "ro_checked" ]
    /\ allow_read_only' = [ allow_read_only EXCEPT ![p] = FALSE ]
    /\ UNCHANGED << dbvars, acquire_ts, lease_ts, newly_created, op, advisory_done,
                    f_done, staged, result, signals, lost_once, overtaken_at_begin, args, delete_call, retry >>
    /\ UNCHANGED rdvars

\* with_pool: check_newly_created
CheckNewlyCreated(p) ==
    /\ pc[p] = "ro_checked"
    /\ newly_created' = [ newly_created EXCEPT ![p] = CHECK_NEWLY_CREATED(documents) ]
    /\ pc' = [ pc EXCEPT ![p] = "acquire" ]
    /\ UNCHANGED << dbvars, acquire_ts, lease_ts, op, advisory_done, f_done, staged,
                    result, signals, lost_once, overtaken_at_begin, args,
                    allow_read_only, delete_call, retry >>
    /\ UNCHANGED rdvars

(* -------------------------------- Lease -------------------------------- *)

\* Lease::acquire: ts = SystemTime::now()
AcquireClock(p) ==
    /\ pc[p] = "acquire"
    /\ \E now \in 1..MaxClock : acquire_ts' = [ acquire_ts EXCEPT ![p] = now ]
    /\ pc' = [ pc EXCEPT ![p] = "acq_exec" ]
    /\ UNCHANGED << dbvars, lease_ts, newly_created, op, advisory_done, f_done, staged,
                    result, signals, lost_once, overtaken_at_begin, args,
                    allow_read_only, delete_call, retry >>
    /\ UNCHANGED rdvars

\* the leases table after the UPDATE of LEASE_ACQUIRE
LeaseUpdated(rows, ts) ==
    { IF r \in LEASE_ACQUIRE(rows, ts) THEN [ r EXCEPT !.ts = ts ] ELSE r : r \in rows }

\* Lease::acquire: the UPDATE has run; ensure!(rows_modified == 1)
AcquireFinish(p, rows_modified) ==
    /\ pc' = [ pc EXCEPT ![p] = IF rows_modified = 1 THEN "ready" ELSE "acq_failed" ]
    /\ lease_ts' = [ lease_ts EXCEPT ![p] = IF rows_modified = 1 THEN acquire_ts[p] ELSE @ ]
    /\ acquire_ts' = [ acquire_ts EXCEPT ![p] = IF rows_modified = 1 THEN 0 ELSE @ ]

\* Lease::acquire: client.execute(LEASE_ACQUIRE, ts).  The UPDATE matches no row
\* and returns at once, or it needs the row's lock, which it gets once no
\* transaction holds the row FOR SHARE
AcquireExecute(p) ==
    /\ pc[p] = "acq_exec"
    /\ IF LEASE_ACQUIRE(leases, acquire_ts[p]) = {}
       THEN /\ AcquireFinish(p, 0)
            /\ UNCHANGED leases
       ELSE IF ShareLocked
       THEN /\ pc' = [ pc EXCEPT ![p] = "acq_wait" ]
            /\ UNCHANGED << leases, lease_ts, acquire_ts >>
       ELSE /\ AcquireFinish(p, Cardinality(LEASE_ACQUIRE(leases, acquire_ts[p])))
            /\ leases' = LeaseUpdated(leases, acquire_ts[p])
    /\ UNCHANGED << documents, indexes, read_only, persistence_globals,
                    newly_created, op, advisory_done, f_done, staged, result,
                    signals, lost_once, overtaken_at_begin, args,
                    allow_read_only, delete_call, retry >>
    /\ UNCHANGED rdvars

\* Lease::acquire: the UPDATE, having waited for the row lock, looks at the row
\* as it is now
AcquireResume(p) ==
    /\ pc[p] = "acq_wait"
    /\ ~ShareLocked
    /\ AcquireFinish(p, Cardinality(LEASE_ACQUIRE(leases, acquire_ts[p])))
    /\ leases' = LeaseUpdated(leases, acquire_ts[p])
    /\ UNCHANGED << documents, indexes, read_only, persistence_globals,
                    newly_created, op, advisory_done, f_done, staged, result,
                    signals, lost_once, overtaken_at_begin, args,
                    allow_read_only, delete_call, retry >>
    /\ UNCHANGED rdvars

\* the leases row carries a ts greater than the one the Lease of p acquired
Overtaken(p) == lease_ts[p] # 0 /\ \E r \in leases : r.id = 1 /\ r.ts > lease_ts[p]

\* client.transaction() returned Ok at the first attempt
Opened == [ NoRetry EXCEPT !.attempts = 1 ]

\* Transact without write()'s store of false in newly_created
Transact_NoStore(p, ops, documents_in, indexes_in, strategies, outcomes) ==
    /\ pc[p] = "ready"
    /\ \E o \in ops :
         /\ op' = [ op EXCEPT ![p] = o ]
         /\ newly_created' = newly_created
         /\ IF o = "write"
            THEN \E docs \in documents_in,
                    idxs \in indexes_in,
                    strategy \in strategies :
                   args' = [ args EXCEPT ![p] = [ documents |-> docs, indexes |-> idxs,
                                                 conflict_strategy |-> strategy,
                                                 read_only |-> None ] ]
            ELSE IF o = "set_read_only"
            THEN \E read_only_arg \in BOOLEAN :
                   args' = [ args EXCEPT ![p] = [ NoArgs EXCEPT !.read_only =
                                                             Some(read_only_arg) ] ]
            ELSE UNCHANGED args
    /\ \E outcome \in outcomes :
         IF outcome = "Ok"
         THEN /\ pc' = [ pc EXCEPT ![p] = "tx" ]
              /\ retry' = [ retry EXCEPT ![p] = Opened ]
         ELSE /\ pc' = [ pc EXCEPT ![p] = "open" ]
              /\ \E poisoned \in BOOLEAN :
                   retry' = [ retry EXCEPT ![p] =
                                [ Opened EXCEPT !.retried_err = TRUE,
                                                !.poisoned = poisoned ] ]
    /\ signals' = [ signals EXCEPT ![p] = 0 ]
    /\ result' = [ result EXCEPT ![p] = "none" ]
    /\ overtaken_at_begin' = [ overtaken_at_begin EXCEPT ![p] = Overtaken(p) ]
    /\ UNCHANGED << dbvars, acquire_ts, lease_ts, advisory_done, f_done, staged,
                    lost_once, allow_read_only, delete_call >>
    /\ UNCHANGED rdvars

\* a method wrapped by self.lease.transact(..) is called; write() first stores
\* false in newly_created.  transact takes a connection and makes its first
\* attempt to open a transaction, client.transaction(), which returns Ok or
\* an error that may have poisoned the connection
Transact(p, ops, documents_in, indexes_in, strategies, outcomes) ==
    /\ pc[p] = "ready"
    /\ \E o \in ops :
         /\ op' = [ op EXCEPT ![p] = o ]
         /\ newly_created' = [ newly_created EXCEPT ![p] = IF o = "write" THEN FALSE ELSE @ ]
         /\ IF o = "write"
            THEN \E docs \in documents_in,
                    idxs \in indexes_in,
                    strategy \in strategies :
                   args' = [ args EXCEPT ![p] = [ documents |-> docs, indexes |-> idxs,
                                                 conflict_strategy |-> strategy,
                                                 read_only |-> None ] ]
            ELSE IF o = "set_read_only"
            THEN \E read_only_arg \in BOOLEAN :
                   args' = [ args EXCEPT ![p] = [ NoArgs EXCEPT !.read_only =
                                                             Some(read_only_arg) ] ]
            ELSE UNCHANGED args
    /\ \E outcome \in outcomes :
         IF outcome = "Ok"
         THEN /\ pc' = [ pc EXCEPT ![p] = "tx" ]
              /\ retry' = [ retry EXCEPT ![p] = Opened ]
         ELSE /\ pc' = [ pc EXCEPT ![p] = "open" ]
              /\ \E poisoned \in BOOLEAN :
                   retry' = [ retry EXCEPT ![p] =
                                [ Opened EXCEPT !.retried_err = TRUE,
                                                !.poisoned = poisoned ] ]
    /\ signals' = [ signals EXCEPT ![p] = 0 ]
    /\ result' = [ result EXCEPT ![p] = "none" ]
    /\ overtaken_at_begin' = [ overtaken_at_begin EXCEPT ![p] = Overtaken(p) ]
    /\ UNCHANGED << dbvars, acquire_ts, lease_ts, advisory_done, f_done, staged,
                    lost_once, allow_read_only, delete_call >>
    /\ UNCHANGED rdvars

\* the call of a method wrapped by transact on a connection that opens the
\* transaction at the first attempt
Begin(p, ops, documents_in, indexes_in, strategies) ==
    Transact(p, ops, documents_in, indexes_in, strategies, { "Ok" })

\* common's TRANSACTION_MAX_* sum, MAX_INSERT_SIZE, is 56000 documents; vectors
\* here are a few documents long, so the limit is scaled down with them
MAX_INSERT_SIZE == 2

\* ResolvedDocument::id_with_table_id of a document that carries its id
id_with_table_id(doc) == << doc.table_id, doc.id >>

\* the checks of write() without the comparison of the ids
Validates_LengthOnly(docs) == Len(docs) <= MAX_INSERT_SIZE

\* write(): ensure!(documents.len() <= MAX_INSERT_SIZE) and, for every update
\* with a document, ensure!(update.id == doc.id_with_table_id())
Validates(docs) ==
    /\ Len(docs) <= MAX_INSERT_SIZE
    /\ \A i \in DOMAIN docs :
         docs[i].value # None =>
            << docs[i].table_id, docs[i].id >> = id_with_table_id(docs[i].value[1])

\* write() is called: with documents that fail its checks it returns the error
\* at once; otherwise it stores false in newly_created and calls transact
Write(p, documents_in, indexes_in, strategies) ==
    \/ /\ pc[p] = "ready"
       /\ \E docs \in documents_in, idxs \in indexes_in, strategy \in strategies :
            /\ ~Validates(docs)
            /\ args' = [ args EXCEPT ![p] = [ documents |-> docs, indexes |-> idxs,
                                             conflict_strategy |-> strategy,
                                             read_only |-> None ] ]
       /\ pc' = [ pc EXCEPT ![p] = "returned" ]
       /\ result' = [ result EXCEPT ![p] = "error" ]
       /\ signals' = [ signals EXCEPT ![p] = 0 ]
       /\ UNCHANGED << dbvars, acquire_ts, lease_ts, newly_created, op, advisory_done,
                       f_done, staged, lost_once, overtaken_at_begin, allow_read_only,
                       delete_call, retry >>
       /\ UNCHANGED rdvars
    \/ Begin(p, { "write" }, { docs \in documents_in : Validates(docs) },
             indexes_in, strategies)

\* the retry loop that goes on after a reconnection it has already made
RetryLoop_Again(p) ==
    /\ pc[p] = "open"
    /\ retry[p].attempts <= 3
    /\ \E outcome \in { "Ok", "Err" }, poisoned \in BOOLEAN :
         /\ retry' = [ retry EXCEPT ![p] =
                         [ @ EXCEPT !.reconnected = TRUE,
                                    !.reconnections = @ + 1,
                                    !.attempts = @ + 1,
                                    !.poisoned = (outcome = "Err" /\ poisoned) ] ]
         /\ pc' = [ pc EXCEPT ![p] = IF outcome = "Ok" THEN "tx" ELSE "open" ]
    /\ UNCHANGED << op, result >>
    /\ UNCHANGED << dbvars, acquire_ts, lease_ts, newly_created, advisory_done, f_done,
                    staged, signals, lost_once, overtaken_at_begin, args,
                    allow_read_only, delete_call >>
    /\ UNCHANGED rdvars

\* Lease::transact: the 'retry loop after a failed client.transaction().  With
\* a reconnection already made, or a connection that is not poisoned, or a
\* reconnection that fails, transact returns the error; otherwise it has
\* reconnected and makes the next attempt
RetryLoop(p) ==
    /\ pc[p] = "open"
    /\ IF retry[p].reconnected \/ ~retry[p].poisoned
       THEN /\ pc' = [ pc EXCEPT ![p] = "returned" ]
            /\ op' = [ op EXCEPT ![p] = "none" ]
            /\ result' = [ result EXCEPT ![p] = "error" ]
            /\ UNCHANGED retry
       ELSE \E reconnect \in { "Ok", "Err" } :
              IF reconnect = "Err"
              THEN /\ pc' = [ pc EXCEPT ![p] = "returned" ]
                   /\ op' = [ op EXCEPT ![p] = "none" ]
                   /\ result' = [ result EXCEPT ![p] = "error" ]
                   /\ retry' = [ retry EXCEPT ![p] = [ @ EXCEPT !.reconnections = @ + 1 ] ]
              ELSE \E outcome \in { "Ok", "Err" }, poisoned \in BOOLEAN :
                     /\ retry' = [ retry EXCEPT ![p] =
                                     [ @ EXCEPT !.reconnected = TRUE,
                                                !.reconnections = @ + 1,
                                                !.attempts = @ + 1,
                                                !.poisoned = (outcome = "Err" /\ poisoned) ] ]
                     /\ pc' = [ pc EXCEPT ![p] = IF outcome = "Ok" THEN "tx" ELSE "open" ]
                     /\ UNCHANGED << op, result >>
    /\ UNCHANGED << dbvars, acquire_ts, lease_ts, newly_created, advisory_done, f_done,
                    staged, signals, lost_once, overtaken_at_begin, args,
                    allow_read_only, delete_call >>
    /\ UNCHANGED rdvars

\* Lease::transact returning lease-lost without signalling the shutdown
Return_NoSignal(p, res) ==
    /\ pc' = [ pc EXCEPT ![p] = "returned" ]
    /\ op' = [ op EXCEPT ![p] = "none" ]
    /\ advisory_done' = [ advisory_done EXCEPT ![p] = FALSE ]
    /\ f_done' = [ f_done EXCEPT ![p] = FALSE ]
    /\ staged' = [ staged EXCEPT ![p] = NoStaged ]
    /\ result' = [ result EXCEPT ![p] = res ]
    /\ lost_once' = [ lost_once EXCEPT ![p] = @ \/ res = "lease_lost" ]
    /\ UNCHANGED << signals, overtaken_at_begin, args,
                    allow_read_only, delete_call, retry >>

\* Lease::transact returns: Ok after the commit, otherwise the transaction is
\* dropped, which rolls it back.  signal: lease_lost_shutdown.signal(..) is
\* called before a lease-lost return
Return(p, res) ==
    /\ pc' = [ pc EXCEPT ![p] = "returned" ]
    /\ op' = [ op EXCEPT ![p] = "none" ]
    /\ advisory_done' = [ advisory_done EXCEPT ![p] = FALSE ]
    /\ f_done' = [ f_done EXCEPT ![p] = FALSE ]
    /\ staged' = [ staged EXCEPT ![p] = NoStaged ]
    /\ result' = [ result EXCEPT ![p] = res ]
    /\ signals' = [ signals EXCEPT ![p] = IF res = "lease_lost" THEN @ + 1 ELSE @ ]
    /\ lost_once' = [ lost_once EXCEPT ![p] = @ \/ res = "lease_lost" ]
    /\ UNCHANGED << overtaken_at_begin, args,
                    allow_read_only, delete_call, retry >>

\* the method returns to its caller what transact returned; its arguments are
\* dropped
Done(p) ==
    /\ pc[p] = "returned"
    /\ pc' = [ pc EXCEPT ![p] = "ready" ]
    /\ args' = [ args EXCEPT ![p] = NoArgs ]
    /\ delete_call' = [ delete_call EXCEPT ![p] = None ]
    /\ retry' = [ retry EXCEPT ![p] = NoRetry ]
    /\ UNCHANGED << dbvars, acquire_ts, lease_ts, newly_created, op, advisory_done,
                    f_done, staged, result, signals, lost_once, overtaken_at_begin,
                    allow_read_only >>
    /\ UNCHANGED rdvars

\* Lease::transact: the advisory_lease_check future
AdvisoryLeaseCheck(p) ==
    /\ pc[p] = "tx"
    /\ ~advisory_done[p]
    /\ IF Cardinality(ADVISORY_LEASE_CHECK(leases, lease_ts[p])) # 1
       THEN Return(p, "lease_lost")
       ELSE /\ advisory_done' = [ advisory_done EXCEPT ![p] = TRUE ]
            /\ UNCHANGED << pc, op, f_done, staged, result, signals, lost_once, overtaken_at_begin, args,
                    allow_read_only, delete_call, retry >>
    /\ UNCHANGED << dbvars, acquire_ts, lease_ts, newly_created >>
    /\ UNCHANGED rdvars

(* --------------------- the functions run by transact ------------------- *)

CHUNK_SIZE == 8

\* longest vector handed to one delete() or delete_index_entries()
MaxDeleteDocs == 1

Nothing == [ ok |-> TRUE, del |-> {}, add |-> {} ]

\* the user function f of p has run its statements; res[tbl] is what they did to
\* tbl.  An error of f ends try_join with that error
RunF(p, res) ==
    IF \A tbl \in DOMAIN res : res[tbl].ok
    THEN /\ f_done' = [ f_done EXCEPT ![p] = TRUE ]
         /\ staged' = [ staged EXCEPT ![p] =
                          [ tbl \in Tables |->
                              IF tbl \in DOMAIN res THEN Stage(@, tbl, res[tbl])[tbl]
                              ELSE @[tbl] ] ]
         /\ UNCHANGED << pc, op, advisory_done, result, signals, lost_once, overtaken_at_begin, args,
                    allow_read_only, delete_call, retry >>
    ELSE Return(p, "error")

\* write(): the closure of lines 397-452, its two inserts pipelined in the one
\* transaction
WriteF(p) ==
    /\ pc[p] = "tx" /\ op[p] = "write" /\ ~f_done[p]
    /\ LET docs == args[p].documents
           idxs == args[p].indexes
           conflict_strategy == args[p].conflict_strategy
           doc_params == [ i \in DOMAIN docs |-> document_params(docs[i]) ]
           updates == SetToSeq(idxs)
           idx_params == [ i \in DOMAIN updates |-> index_params(updates[i]) ]
           insert_docs ==
               IF docs = << >> THEN Nothing
               ELSE IF conflict_strategy = "Error"
               THEN INSERT_DOCUMENT(View(p, "documents"), doc_params)
               ELSE INSERT_OVERWRITE_DOCUMENT(View(p, "documents"), doc_params)
           insert_idxs ==
               IF idxs = {} THEN Nothing
               ELSE IF conflict_strategy = "Error"
               THEN INSERT_INDEX(View(p, "indexes"), idx_params)
               ELSE INSERT_OVERWRITE_INDEX(View(p, "indexes"), idx_params)
       IN /\ ~Waits(p, "documents", Keys("documents", Range(doc_params)))
          /\ ~Waits(p, "indexes", Keys("indexes", Range(idx_params)))
          /\ RunF(p, [ documents |-> insert_docs, indexes |-> insert_idxs ])
    /\ UNCHANGED << dbvars, acquire_ts, lease_ts, newly_created >>
    /\ UNCHANGED rdvars

\* the rows a chunk statement deletes taken from the first pair of the chunk
\* alone
DELETE_DOCUMENT_CHUNK_FirstOnly(view, chunk) ==
    [ ok  |-> TRUE,
      del |-> DELETE_DOCUMENT(view, chunk[1]).del,
      add |-> {} ]

\* DELETE_DOCUMENT_CHUNK: the OR of CHUNK_SIZE DELETE_DOCUMENT conditions
DELETE_DOCUMENT_CHUNK(view, chunk) ==
    [ ok  |-> TRUE,
      del |-> UNION { DELETE_DOCUMENT(view, chunk[i]).del : i \in DOMAIN chunk },
      add |-> {} ]

\* DELETE_INDEX_CHUNK: the OR of CHUNK_SIZE DELETE_INDEX conditions
DELETE_INDEX_CHUNK(view, chunk) ==
    [ ok  |-> TRUE,
      del |-> UNION { DELETE_INDEX(view, chunk[i]).del : i \in DOMAIN chunk },
      add |-> {} ]

\* the loops of delete() and delete_index_entries(): chunks_exact(CHUNK_SIZE)
\* through the chunk statement, then the remainder one by one; yields the rows
\* deleted and deleted_count
RECURSIVE DeleteLoop(_, _, _, _)
DeleteLoop(tbl, view, rest, acc) ==
    IF Len(rest) >= CHUNK_SIZE /\ acc.chunks
    THEN LET chunk == SubSeq(rest, 1, CHUNK_SIZE)
             res == IF tbl = "documents" THEN DELETE_DOCUMENT_CHUNK(view, chunk)
                                          ELSE DELETE_INDEX_CHUNK(view, chunk)
         IN DeleteLoop(tbl, view \ res.del,
                       SubSeq(rest, CHUNK_SIZE + 1, Len(rest)),
                       [ acc EXCEPT !.del = @ \cup res.del,
                                    !.deleted_count = @ + Cardinality(res.del) ])
    ELSE IF rest # << >>
    THEN LET res == IF tbl = "documents" THEN DELETE_DOCUMENT(view, Head(rest))
                                          ELSE DELETE_INDEX(view, Head(rest))
         IN DeleteLoop(tbl, view \ res.del, Tail(rest),
                       [ acc EXCEPT !.del = @ \cup res.del,
                                    !.deleted_count = @ + Cardinality(res.del),
                                    !.chunks = FALSE ])
    ELSE acc

DeleteStart == [ ok |-> TRUE, del |-> {}, add |-> {}, deleted_count |-> 0, chunks |-> TRUE ]

\* delete(): the closure of lines 555-575, called with one of the given
\* vectors; its Ok(deleted_count) is what transact returns after the commit
Delete(p, vectors) ==
    /\ pc[p] = "tx" /\ op[p] = "delete" /\ ~f_done[p]
    /\ \E docs \in vectors :
         LET res == DeleteLoop("documents",
                               View(p, "documents"), docs, DeleteStart)
         IN /\ ~Waits(p, "documents", Keys("documents", res.del))
            /\ f_done' = [ f_done EXCEPT ![p] = TRUE ]
            /\ staged' = [ staged EXCEPT ![p] = Stage(@, "documents", res) ]
            /\ delete_call' = [ delete_call EXCEPT ![p] =
                                  Some([ documents |-> docs,
                                         deleted_count |-> res.deleted_count ]) ]
    /\ UNCHANGED << pc, op, advisory_done, result, signals, lost_once,
                    overtaken_at_begin, args, allow_read_only, retry >>
    /\ UNCHANGED << dbvars, acquire_ts, lease_ts, newly_created >>
    /\ UNCHANGED rdvars

\* delete() with one of the short vectors of the lease specification
DeleteF(p) == Delete(p, SeqsUpTo(DeleteArgs, MaxDeleteDocs))

\* delete_index_entries(): the closure of lines 523-545
DeleteIndexEntriesF(p) ==
    /\ pc[p] = "tx" /\ op[p] = "delete_index_entries" /\ ~f_done[p]
    /\ \E entries \in SeqsUpTo(DeleteIndexArgs, MaxDeleteDocs) :
         LET res == DeleteLoop("indexes",
                               View(p, "indexes"), entries, DeleteStart)
         IN /\ ~Waits(p, "indexes", Keys("indexes", res.del))
            /\ RunF(p, [ indexes |-> res ])
    /\ UNCHANGED << dbvars, acquire_ts, lease_ts, newly_created >>
    /\ UNCHANGED rdvars

\* set_read_only(read_only): the closure of lines 458-468
SetReadOnlyF(p) ==
    /\ pc[p] = "tx" /\ op[p] = "set_read_only" /\ ~f_done[p]
    /\ ~Waits(p, "read_only", { << 1 >> })
    /\ RunF(p, [ read_only |-> IF args[p].read_only[1]
                                THEN SET_READ_ONLY(View(p, "read_only"))
                                ELSE UNSET_READ_ONLY(View(p, "read_only")) ])
    /\ UNCHANGED << dbvars, acquire_ts, lease_ts, newly_created >>
    /\ UNCHANGED rdvars

\* write_persistence_global(): the closure of lines 479-489
WritePersistenceGlobalF(p) ==
    /\ pc[p] = "tx" /\ op[p] = "write_persistence_global" /\ ~f_done[p]
    /\ \E key \in GlobalKeys, value \in GlobalValues :
         /\ ~Waits(p, "persistence_globals", { << key >> })
         /\ RunF(p, [ persistence_globals |->
                        WRITE_PERSISTENCE_GLOBAL(View(p, "persistence_globals"), key,
                                                 json_serialize(value)) ])
    /\ UNCHANGED << dbvars, acquire_ts, lease_ts, newly_created >>
    /\ UNCHANGED rdvars

\* a precondition check that also refuses the commit of a database that is
\* read-only
LeasePrecond_ReadOnly(p) ==
    /\ pc[p] = "tx" /\ advisory_done[p] /\ f_done[p]
    /\ IF CHECK_IS_READ_ONLY(read_only)
       THEN Return(p, "error")
       ELSE IF Cardinality(LEASE_PRECOND(leases, lease_ts[p])) # 1
       THEN Return(p, "lease_lost")
       ELSE /\ pc' = [ pc EXCEPT ![p] = "locked" ]
            /\ UNCHANGED << op, advisory_done, f_done, staged, result, signals, lost_once, overtaken_at_begin, args,
                    allow_read_only, delete_call, retry >>
    /\ UNCHANGED << dbvars, acquire_ts, lease_ts, newly_created >>
    /\ UNCHANGED rdvars

\* Lease::transact: LEASE_PRECOND after try_join returned Ok; a returned row is
\* share-locked until the transaction ends
LeasePrecond(p) ==
    /\ pc[p] = "tx" /\ advisory_done[p] /\ f_done[p]
    /\ IF Cardinality(LEASE_PRECOND(leases, lease_ts[p])) # 1
       THEN Return(p, "lease_lost")
       ELSE /\ pc' = [ pc EXCEPT ![p] = "locked" ]
            /\ UNCHANGED << op, advisory_done, f_done, staged, result, signals, lost_once, overtaken_at_begin, args,
                    allow_read_only, delete_call, retry >>
    /\ UNCHANGED << dbvars, acquire_ts, lease_ts, newly_created >>
    /\ UNCHANGED rdvars

\* Lease::transact: tx.commit()
Commit(p) ==
    /\ pc[p] = "locked"
    /\ documents' = Committed(documents, staged[p]["documents"])
    /\ indexes' = Committed(indexes, staged[p]["indexes"])
    /\ read_only' = Committed(read_only, staged[p]["read_only"])
    /\ persistence_globals' = Committed(persistence_globals, staged[p]["persistence_globals"])
    /\ Return(p, "ok")
    /\ UNCHANGED << leases, acquire_ts, lease_ts, newly_created >>
    /\ UNCHANGED rdvars

(* ---------------------------- PostgresReader --------------------------- *)

\* largest table id and document id a log entry carries
MaxId == 2
\* largest page_size handed to load_documents
MaxPageSize == 2

\* InternalId::BEFORE_ALL_BYTES, InternalId::AFTER_ALL_BYTES: byte strings
\* below and above the bytes of every id (ids are 1..MaxId)
BEFORE_ALL_BYTES == 0
AFTER_ALL_BYTES == MaxId + 1

\* the row comparison (a1, a2, a3) < (b1, b2, b3) of SQL
RowLess(a, b) ==
    \/ a[1] < b[1]
    \/ a[1] = b[1] /\ a[2] < b[2]
    \/ a[1] = b[1] /\ a[2] = b[2] /\ a[3] < b[3]

\* ORDER BY ts, table_id, id, ascending or descending
RECURSIVE OrderBy(_, _)
OrderBy(rows, order) ==
    IF rows = {} THEN << >>
    ELSE LET first == CHOOSE r \in rows : \A q \in rows \ {r} :
                          IF order = "Asc" THEN RowLess(DocKey(r), DocKey(q))
                                           ELSE RowLess(DocKey(q), DocKey(r))
         IN << first >> \o OrderBy(rows \ {first}, order)

\* LIMIT n
Limit(s, n) == SubSeq(s, 1, Min(n, Len(s)))

\* WHERE (ts, table_id, id) >= ($1, $2, $3) in place of >
LOAD_DOCS_BY_TS_PAGE_ASC_Inclusive(rows, last, max_ts, limit) ==
    Limit(OrderBy({ r \in rows : ~RowLess(DocKey(r), last) /\ r.ts < max_ts }, "Asc"), limit)

\* SELECT ... FROM documents WHERE (ts, table_id, id) > ($1, $2, $3) AND ts < $4
\* ORDER BY ts ASC, table_id ASC, id ASC LIMIT $5
LOAD_DOCS_BY_TS_PAGE_ASC(rows, last, max_ts, limit) ==
    Limit(OrderBy({ r \in rows : RowLess(last, DocKey(r)) /\ r.ts < max_ts }, "Asc"), limit)

\* WHERE ts > $1 in place of ts >= $1
LOAD_DOCS_BY_TS_PAGE_DESC_ExclusiveMin(rows, min_ts, last, limit) ==
    Limit(OrderBy({ r \in rows : r.ts > min_ts /\ RowLess(DocKey(r), last) }, "Desc"), limit)

\* SELECT ... FROM documents WHERE ts >= $1 AND (ts, table_id, id) < ($2, $3, $4)
\* ORDER BY ts DESC, table_id DESC, id DESC LIMIT $5
LOAD_DOCS_BY_TS_PAGE_DESC(rows, min_ts, last, limit) ==
    Limit(OrderBy({ r \in rows : r.ts >= min_ts /\ RowLess(DocKey(r), last) }, "Desc"), limit)

\* row_to_document succeeds on the row: a live row's json_value must hold a
\* document body
Decodes(row) == row.deleted \/ row.json_value[1] = "json"

\* row_to_document: the DocumentLogEntry of a row of documents
row_to_document(row) ==
    [ ts       |-> row.ts,
      table_id |-> row.table_id,
      id       |-> row.id,
      value    |-> IF ~row.deleted THEN Some(row.json_value[2]) ELSE None,
      prev_ts  |-> row.prev_ts ]

\* the (ts, table_id, id) of a DocumentLogEntry
EntryKey(e) == << e.ts, e.table_id, e.id >>

\* the arguments a caller may pass to load_documents
LoadArgs ==
    { a \in [ range_min : 1..MaxDocTs, range_max : 2..(MaxDocTs + 1),
              order : { "Asc", "Desc" }, page_size : 0..MaxPageSize ] :
        a.range_min < a.range_max }

\* load_documents is called on a reader of a constructed PostgresPersistence:
\* the initial cursor
LoadDocuments ==
    /\ reader_pc = "idle"
    /\ stream = "none"
    /\ \E p \in Procs : lease_ts[p] # 0
    /\ \E a \in LoadArgs :
         /\ load_args' = a
         /\ last_param' = IF a.order = "Asc"
                          THEN << a.range_min - 1, AFTER_ALL_BYTES, AFTER_ALL_BYTES >>
                          ELSE << a.range_max, BEFORE_ALL_BYTES, BEFORE_ALL_BYTES >>
    /\ reader_pc' = "query"
    /\ batch' = << >>
    /\ yielded' = << >>
    /\ UNCHANGED << dbvars, procvars, scanvars, prevvars, copyvars >>

\* _load_documents: one page query on a connection of the read pool, its rows
\* decoded into batch and the cursor moved to the last of them
LoadPage ==
    /\ reader_pc = "query"
    /\ LET rows == IF load_args.order = "Asc"
                   THEN LOAD_DOCS_BY_TS_PAGE_ASC(documents, last_param,
                                                 load_args.range_max, load_args.page_size)
                   ELSE LOAD_DOCS_BY_TS_PAGE_DESC(documents, load_args.range_min,
                                                  last_param, load_args.page_size)
       IN IF \A i \in DOMAIN rows : Decodes(rows[i])
          THEN /\ batch' = [ i \in DOMAIN rows |-> row_to_document(rows[i]) ]
               /\ last_param' = IF rows = << >> THEN last_param
                                ELSE DocKey(rows[Len(rows)])
               /\ reader_pc' = "validate"
          ELSE /\ reader_pc' = "failed"
               /\ UNCHANGED << batch, last_param >>
    /\ UNCHANGED << dbvars, procvars, scanvars, prevvars, copyvars, load_args, yielded >>

\* the loop left only on an empty page
ValidateSnapshot_EndsOnEmpty ==
    /\ reader_pc = "validate"
    /\ \E valid \in BOOLEAN :
         IF valid
         THEN /\ yielded' = yielded \o batch
              /\ reader_pc' = IF Len(batch) = 0 THEN "done" ELSE "query"
         ELSE /\ reader_pc' = "failed"
              /\ UNCHANGED yielded
    /\ batch' = << >>
    /\ UNCHANGED << dbvars, procvars, scanvars, prevvars, copyvars, load_args, last_param >>

\* _load_documents: validate_document_snapshot, whose answer is the retention
\* validator's; then the batch is yielded and a short page ends the stream
ValidateSnapshot ==
    /\ reader_pc = "validate"
    /\ \E valid \in BOOLEAN :
         IF valid
         THEN /\ yielded' = yielded \o batch
              /\ reader_pc' = IF Len(batch) < load_args.page_size THEN "done" ELSE "query"
         ELSE /\ reader_pc' = "failed"
              /\ UNCHANGED yielded
    /\ batch' = << >>
    /\ UNCHANGED << dbvars, procvars, scanvars, prevvars, copyvars, load_args, last_param >>

\* the caller drops the stream after its end
DropStream ==
    /\ reader_pc \in { "done", "failed" }
    /\ reader_pc' = "idle"
    /\ load_args' = NoLoad
    /\ last_param' = NoCursor
    /\ batch' = << >>
    /\ yielded' = << >>
    /\ UNCHANGED << dbvars, procvars, scanvars, prevvars, copyvars >>

(* ------------------------------ index_scan ------------------------------ *)

\* largest size_hint handed to index_scan
MaxSizeHint == 2

\* byte strings compared as Postgres compares BYTEA and Rust compares Vec<u8>:
\* lexicographically, a proper prefix first
RECURSIVE BytesLess(_, _)
BytesLess(a, b) ==
    IF b = << >> THEN FALSE
    ELSE IF a = << >> THEN TRUE
    ELSE \/ Head(a) < Head(b)
         \/ Head(a) = Head(b) /\ BytesLess(Tail(a), Tail(b))

\* MIN_SHA256, MAX_SHA256: digests not above, and not below, any digest of a key
\* (the bytes of the keys here lie strictly between 0 and 255)
MIN_SHA256 == << 0 >>
MAX_SHA256 == << 255 >>

\* Bound<SqlKey>
Unbounded == [ type |-> "Unbounded", prefix |-> << >>, sha256 |-> << >> ]
Included(k) == [ type |-> "Included", prefix |-> k.prefix, sha256 |-> k.sha256 ]
Excluded(k) == [ type |-> "Excluded", prefix |-> k.prefix, sha256 |-> k.sha256 ]

\* SqlKey::min_with_same_prefix, SqlKey::max_with_same_prefix
min_with_same_prefix(key) == [ prefix |-> SplitKey(key).prefix, sha256 |-> MIN_SHA256 ]
max_with_same_prefix(key) == [ prefix |-> SplitKey(key).prefix, sha256 |-> MAX_SHA256 ]

\* Interval { start: StartIncluded(key), end: End::Excluded(key) | End::Unbounded }
\* with end None for Unbounded; Interval::contains
contains(interval, key) ==
    /\ ~BytesLess(key, interval.start)
    /\ interval.end = None \/ BytesLess(key, interval.end[1])

\* to_sql_bounds: the SqlKey bounds of an interval
to_sql_bounds(interval) ==
    [ lower |-> Included(min_with_same_prefix(interval.start)),
      upper |-> IF interval.end = None THEN Unbounded
                ELSE IF Len(interval.end[1]) < MAX_INDEX_KEY_PREFIX_LEN
                     THEN Excluded(min_with_same_prefix(interval.end[1]))
                     ELSE Included(max_with_same_prefix(interval.end[1])) ]

\* the row comparison (key_prefix, key_sha256) < ($a, $b) of SQL
SqlKeyLess(a, b) ==
    \/ BytesLess(a.prefix, b.prefix)
    \/ a.prefix = b.prefix /\ BytesLess(a.sha256, b.sha256)

\* the SqlKey of a row of indexes
SqlKeyOf(r) == [ prefix |-> r.key_prefix, sha256 |-> r.key_sha256 ]

\* the lower-bound and upper-bound conditions the twelve INDEX_QUERIES differ in
AboveLower(r, lo) ==
    CASE lo.type = "Unbounded" -> TRUE
      [] lo.type = "Included" -> ~SqlKeyLess(SqlKeyOf(r), lo)
      [] lo.type = "Excluded" -> SqlKeyLess(lo, SqlKeyOf(r))
BelowUpper(r, up) ==
    CASE up.type = "Unbounded" -> TRUE
      [] up.type = "Included" -> ~SqlKeyLess(up, SqlKeyOf(r))
      [] up.type = "Excluded" -> SqlKeyLess(SqlKeyOf(r), up)

\* ORDER BY key_prefix, key_sha256, ascending or descending
RECURSIVE OrderBySqlKey(_, _)
OrderBySqlKey(rows, order) ==
    IF rows = {} THEN << >>
    ELSE LET first == CHOOSE r \in rows : \A q \in rows \ {r} :
                          IF order = "Asc" THEN SqlKeyLess(SqlKeyOf(r), SqlKeyOf(q))
                                           ELSE SqlKeyLess(SqlKeyOf(q), SqlKeyOf(r))
         IN << first >> \o OrderBySqlKey(rows \ {first}, order)

\* LEFT JOIN documents D ON D.ts = A.ts AND D.table_id = A.table_id AND
\* D.id = A.document_id: the columns of A with D.table_id, D.json_value and
\* D.prev_ts, which are NULL when no row of documents matches
LeftJoin(a, docs) ==
    LET D == { d \in docs : /\ d.ts = a.ts
                            /\ a.table_id = Some(d.table_id)
                            /\ a.document_id = Some(d.id) }
    IN [ key_prefix |-> a.key_prefix, key_sha256 |-> a.key_sha256,
         key_suffix |-> a.key_suffix, ts |-> a.ts, deleted |-> a.deleted,
         table      |-> IF D = {} THEN None ELSE Some((CHOOSE d \in D : TRUE).table_id),
         json_value |-> IF D = {} THEN JsonNull ELSE (CHOOSE d \in D : TRUE).json_value,
         prev_ts    |-> IF D = {} THEN None ELSE (CHOOSE d \in D : TRUE).prev_ts ]

\* the rows of A: DISTINCT ON (key_prefix, key_sha256) ... ORDER BY key_prefix,
\* key_sha256, ts DESC keeps of each key the row of greatest ts
DistinctOn(rows) ==
    { r \in rows : \A q \in rows : SqlKeyOf(q) = SqlKeyOf(r) => q.ts <= r.ts }

\* WHERE ts < $2 in place of ts <= $2
INDEX_QUERIES_Before(idx, docs, index_id, read_timestamp, lo, up, order, limit) ==
    LET A == Limit(OrderBySqlKey(DistinctOn({ r \in idx :
                       /\ r.index_id = index_id /\ r.ts < read_timestamp
                       /\ AboveLower(r, lo) /\ BelowUpper(r, up) }), order), limit)
    IN [ i \in DOMAIN A |-> LeftJoin(A[i], docs) ]

\* WHERE NOT deleted added to the inner query
INDEX_QUERIES_LiveOnly(idx, docs, index_id, read_timestamp, lo, up, order, limit) ==
    LET A == Limit(OrderBySqlKey(DistinctOn({ r \in idx :
                       /\ r.index_id = index_id /\ r.ts <= read_timestamp /\ ~r.deleted
                       /\ AboveLower(r, lo) /\ BelowUpper(r, up) }), order), limit)
    IN [ i \in DOMAIN A |-> LeftJoin(A[i], docs) ]

\* the inner query without its condition on ts
INDEX_QUERIES_AnyTs(idx, docs, index_id, read_timestamp, lo, up, order, limit) ==
    LET A == Limit(OrderBySqlKey(DistinctOn({ r \in idx :
                       /\ r.index_id = index_id
                       /\ AboveLower(r, lo) /\ BelowUpper(r, up) }), order), limit)
    IN [ i \in DOMAIN A |-> LeftJoin(A[i], docs) ]

\* INDEX_QUERIES[(lower type, upper type, order)]:
\* SELECT ... FROM (SELECT DISTINCT ON (key_prefix, key_sha256) ... FROM indexes
\*   WHERE index_id = $1 AND ts <= $2 AND <lower> AND <upper>
\*   ORDER BY key_prefix, key_sha256, ts DESC LIMIT $n) A
\* LEFT JOIN documents D ON ... ORDER BY key_prefix, key_sha256
INDEX_QUERIES(idx, docs, index_id, read_timestamp, lo, up, order, limit) ==
    LET A == Limit(OrderBySqlKey(DistinctOn({ r \in idx :
                       /\ r.index_id = index_id /\ r.ts <= read_timestamp
                       /\ AboveLower(r, lo) /\ BelowUpper(r, up) }), order), limit)
    IN [ i \in DOMAIN A |-> LeftJoin(A[i], docs) ]

\* Order::apply: the sequence as it is, or reversed
Apply(order, s) == IF order = "Asc" THEN s ELSE Reverse(s)

\* result_buffer.sort_by(|a, b| a.0.cmp(&b.0)): the buffered results by full key
RECURSIVE SortByKey(_)
SortByKey(items) ==
    IF items = {} THEN << >>
    ELSE LET first == CHOOSE r \in items : \A q \in items \ {r} : BytesLess(r.key, q.key)
         IN << first >> \o SortByKey(items \ {first})

\* the elements of s that satisfy interval.contains, in the order of s
RECURSIVE InInterval(_, _)
InInterval(interval, s) ==
    IF s = << >> THEN << >>
    ELSE (IF contains(interval, Head(s).key) THEN << Head(s) >> ELSE << >>)
            \o InInterval(interval, Tail(s))

\* the buffered results left in arrival order
Flush_Unsorted(interval, order, buffer) == InInterval(interval, buffer)

\* the buffered results sorted and ordered, none dropped
Flush_Unfiltered(interval, order, buffer) == Apply(order, SortByKey(Range(buffer)))

\* the buffered results sorted by full key, put in the order of the scan, those
\* outside the interval dropped
Flush(interval, order, buffer) ==
    InInterval(interval, Apply(order, SortByKey(Range(buffer))))

\* the key of a row: key_prefix extended by key_suffix
FullKey(row) ==
    IF row.key_suffix = None THEN row.key_prefix ELSE row.key_prefix \o row.key_suffix[1]

\* a row loop that compares the prefix of the buffer only with rows whose key
\* is to be buffered
RowLoop_FlushOnLongOnly(a, row, st) ==
    LET flush == /\ st.result_buffer # << >>
                 /\ Len(row.key_prefix) >= MAX_INDEX_KEY_PREFIX_LEN
                 /\ SplitKey(st.result_buffer[1].key).prefix # row.key_prefix
        buffer == IF flush THEN << >> ELSE st.result_buffer
        out    == IF flush THEN st.batch \o Flush(a.interval, a.order, st.result_buffer)
                  ELSE st.batch
        bound  == Excluded(SqlKeyOf(row))
        moved  == [ st EXCEPT !.lower = IF a.order = "Asc" THEN bound ELSE @,
                              !.upper = IF a.order = "Desc" THEN bound ELSE @,
                              !.result_buffer = buffer, !.batch = out ]
        item   == [ key |-> FullKey(row), ts |-> row.ts,
                    json |-> row.json_value, prev_ts |-> row.prev_ts ]
    IN IF row.deleted THEN moved
       ELSE IF row.table = None THEN [ moved EXCEPT !.error = "dangling" ]
       ELSE IF Len(item.key) < MAX_INDEX_KEY_PREFIX_LEN
            THEN IF buffer # << >> THEN [ moved EXCEPT !.error = "assert" ]
                 ELSE IF contains(a.interval, item.key)
                 THEN [ moved EXCEPT !.batch = Append(@, item) ]
                 ELSE moved
            ELSE [ moved EXCEPT !.result_buffer = Append(@, item) ]

\* the body of `while let Some(row) = row_stream.try_next()`: a differing prefix
\* flushes the buffer into the batch, the bound of later queries moves past the
\* row, a deleted row is skipped, a row without its document is an error, a
\* short key goes to the batch, the buffer being asserted empty, and a long
\* one to the buffer
RowLoop(a, row, st) ==
    LET flush == /\ st.result_buffer # << >>
                 /\ SplitKey(st.result_buffer[1].key).prefix # row.key_prefix
        buffer == IF flush THEN << >> ELSE st.result_buffer
        out    == IF flush THEN st.batch \o Flush(a.interval, a.order, st.result_buffer)
                  ELSE st.batch
        bound  == Excluded(SqlKeyOf(row))
        moved  == [ st EXCEPT !.lower = IF a.order = "Asc" THEN bound ELSE @,
                              !.upper = IF a.order = "Desc" THEN bound ELSE @,
                              !.result_buffer = buffer, !.batch = out ]
        item   == [ key |-> FullKey(row), ts |-> row.ts,
                    json |-> row.json_value, prev_ts |-> row.prev_ts ]
    IN IF row.deleted THEN moved
       ELSE IF row.table = None THEN [ moved EXCEPT !.error = "dangling" ]
       ELSE IF Len(item.key) < MAX_INDEX_KEY_PREFIX_LEN
            THEN IF buffer # << >> THEN [ moved EXCEPT !.error = "assert" ]
                 ELSE IF contains(a.interval, item.key)
                 THEN [ moved EXCEPT !.batch = Append(@, item) ]
                 ELSE moved
            ELSE [ moved EXCEPT !.result_buffer = Append(@, item) ]

\* the row loop over the rows of a page; an error ends it
RECURSIVE RowsLoop(_, _, _)
RowsLoop(a, rows, st) ==
    IF rows = << >> \/ st.error # "none" THEN st
    ELSE RowsLoop(a, Tail(rows), RowLoop(a, Head(rows), st))

\* the size hint taken as it is
batch_size_Unclamped(size_hint) == size_hint

\* size_hint.clamp(1, 5000): the LIMIT of a page and the capacity of the channel
batch_size(size_hint) ==
    IF size_hint < 1 THEN 1 ELSE IF size_hint > 5000 THEN 5000 ELSE size_hint

\* the index keys of the model: a key shorter than MAX_INDEX_KEY_PREFIX_LEN, and
\* three keys that share their first MAX_INDEX_KEY_PREFIX_LEN bytes and whose
\* digests are ordered otherwise than the keys are
ScanKeys == << << 1 >>, << 2, 1 >>, << 2, 1, 1 >>, << 2, 1, 2 >> >>

\* the intervals a caller may pass to index_scan
ScanIntervals ==
    { [ start |-> << 1 >>, end |-> None ],
      [ start |-> << 2, 1, 1 >>, end |-> Some(<< 3 >>) ],
      [ start |-> << 1 >>, end |-> Some(<< 2, 1, 2 >>) ] }

\* the arguments a caller may pass to index_scan
ScanArgs ==
    [ index_id : {1}, read_timestamp : 1..MaxDocTs, interval : ScanIntervals,
      order : { "Asc", "Desc" }, size_hint : 1..MaxSizeHint ]

\* the producer has returned or has been aborted
ProducerEnded ==
    scan_pc \in { "ok", "retention", "dangling", "assert", "row_send_err",
                  "boundary_send_err", "aborted" }

\* the receiving half of the channel is gone: the stream was dropped by its
\* caller, or ended with an error of its own
RxDropped == stream \in { "dropped", "deleted_doc" }

\* _index_scan polled for the first time: the channel is created and
\* _index_scan_inner spawned, which computes its SQL bounds
IndexScan(arguments) ==
    /\ stream = "none"
    /\ reader_pc = "idle"
    /\ \E p \in Procs : lease_ts[p] # 0
    /\ \E a \in arguments :
         /\ scan_args' = a
         /\ lower' = to_sql_bounds(a.interval).lower
         /\ upper' = to_sql_bounds(a.interval).upper
    /\ stream' = "open"
    /\ scan_pc' = "query"
    /\ UNCHANGED << result_buffer, scan_batch, batch_rows, chan, page_rx, emitted,
                    sql_statements >>
    /\ UNCHANGED << dbvars, procvars, loadvars, prevvars, copyvars >>

\* the row messages of a page put on the channel before the retention
\* validation of the page
ScanPage_SendsEarly ==
    /\ scan_pc = "query"
    /\ LET rows == INDEX_QUERIES(indexes, documents, scan_args.index_id,
                                 scan_args.read_timestamp, lower, upper,
                                 scan_args.order, batch_size(scan_args.size_hint))
           st == RowsLoop(scan_args, rows,
                          [ lower |-> lower, upper |-> upper,
                            result_buffer |-> result_buffer, batch |-> << >>,
                            error |-> "none" ])
       IN /\ lower' = st.lower
          /\ upper' = st.upper
          /\ result_buffer' = st.result_buffer
          /\ scan_batch' = << >>
          /\ chan' = chan \o [ i \in DOMAIN st.batch |-> << "Row", st.batch[i] >> ]
          /\ batch_rows' = Len(rows)
          /\ scan_pc' = IF st.error = "none" THEN "validate" ELSE st.error
    /\ sql_statements' = sql_statements + 1
    /\ UNCHANGED << stream, scan_args, page_rx, emitted >>
    /\ UNCHANGED << dbvars, procvars, loadvars, prevvars, copyvars >>

\* _index_scan_inner: one page query on a connection of the read pool and the
\* row loop over its rows
ScanPage ==
    /\ scan_pc = "query"
    /\ LET rows == INDEX_QUERIES(indexes, documents, scan_args.index_id,
                                 scan_args.read_timestamp, lower, upper,
                                 scan_args.order, batch_size(scan_args.size_hint))
           st == RowsLoop(scan_args, rows,
                          [ lower |-> lower, upper |-> upper,
                            result_buffer |-> result_buffer, batch |-> << >>,
                            error |-> "none" ])
       IN /\ lower' = st.lower
          /\ upper' = st.upper
          /\ result_buffer' = st.result_buffer
          /\ scan_batch' = st.batch
          /\ batch_rows' = Len(rows)
          /\ scan_pc' = IF st.error = "none" THEN "validate" ELSE st.error
    /\ sql_statements' = sql_statements + 1
    /\ UNCHANGED << stream, scan_args, chan, page_rx, emitted >>
    /\ UNCHANGED << dbvars, procvars, loadvars, prevvars, copyvars >>

\* _index_scan_inner: validate_snapshot(read_timestamp), whose answer is the
\* retention validator's; an error ends the producer
ScanValidate ==
    /\ scan_pc = "validate"
    /\ \E valid \in BOOLEAN :
         IF valid
         THEN /\ scan_pc' = "send"
              /\ UNCHANGED scan_batch
         ELSE /\ scan_pc' = "retention"
              /\ scan_batch' = << >>
    /\ UNCHANGED << stream, scan_args, lower, upper, result_buffer, batch_rows, chan,
                    page_rx, emitted, sql_statements >>
    /\ UNCHANGED << dbvars, procvars, loadvars, prevvars, copyvars >>

\* tx.send(IndexScanResult::Row {..}).await?, for a row of the page or of the
\* final flush: it waits while the channel is full and fails once the
\* receiver is gone
ScanSendRow ==
    /\ scan_pc \in { "send", "flush" }
    /\ scan_batch # << >>
    /\ IF RxDropped
       THEN /\ scan_pc' = "row_send_err"
            /\ scan_batch' = << >>
            /\ UNCHANGED chan
       ELSE /\ Len(chan) < batch_size(scan_args.size_hint)
            /\ chan' = Append(chan, << "Row", Head(scan_batch) >>)
            /\ scan_batch' = Tail(scan_batch)
            /\ UNCHANGED scan_pc
    /\ UNCHANGED << stream, scan_args, lower, upper, result_buffer, batch_rows, page_rx,
                    emitted, sql_statements >>
    /\ UNCHANGED << dbvars, procvars, loadvars, prevvars, copyvars >>

\* after the rows of a page: a short page leaves the loop for the final flush
\* of the buffer, a full one goes on to the page boundary
ScanPageEnd ==
    /\ scan_pc = "send"
    /\ scan_batch = << >>
    /\ IF batch_rows < batch_size(scan_args.size_hint)
       THEN /\ scan_pc' = "flush"
            /\ scan_batch' = Flush(scan_args.interval, scan_args.order, result_buffer)
            /\ result_buffer' = << >>
       ELSE /\ scan_pc' = "boundary"
            /\ UNCHANGED << scan_batch, result_buffer >>
    /\ UNCHANGED << stream, scan_args, lower, upper, batch_rows, chan, page_rx, emitted,
                    sql_statements >>
    /\ UNCHANGED << dbvars, procvars, loadvars, prevvars, copyvars >>

\* the next page query issued as soon as the sentinel is on the channel
ScanSendBoundary_NoWait ==
    /\ scan_pc = "boundary"
    /\ IF RxDropped
       THEN /\ scan_pc' = "boundary_send_err"
            /\ UNCHANGED << chan, page_rx >>
       ELSE /\ Len(chan) < batch_size(scan_args.size_hint)
            /\ chan' = Append(chan, << "PageBoundary" >>)
            /\ page_rx' = "pending"
            /\ scan_pc' = "query"
    /\ UNCHANGED << stream, scan_args, lower, upper, result_buffer, scan_batch,
                    batch_rows, emitted, sql_statements >>
    /\ UNCHANGED << dbvars, procvars, loadvars, prevvars, copyvars >>

\* let (page_tx, page_rx) = oneshot::channel();
\* tx.send(IndexScanResult::PageBoundary(page_tx)).await?
ScanSendBoundary ==
    /\ scan_pc = "boundary"
    /\ IF RxDropped
       THEN /\ scan_pc' = "boundary_send_err"
            /\ UNCHANGED << chan, page_rx >>
       ELSE /\ Len(chan) < batch_size(scan_args.size_hint)
            /\ chan' = Append(chan, << "PageBoundary" >>)
            /\ page_rx' = "pending"
            /\ scan_pc' = "wait"
    /\ UNCHANGED << stream, scan_args, lower, upper, result_buffer, scan_batch,
                    batch_rows, emitted, sql_statements >>
    /\ UNCHANGED << dbvars, procvars, loadvars, prevvars, copyvars >>

\* a closed reply channel reported as an error
ScanPageReply_Err ==
    /\ scan_pc = "wait"
    /\ page_rx \in { "replied", "closed" }
    /\ scan_pc' = IF page_rx = "replied" THEN "query" ELSE "boundary_send_err"
    /\ page_rx' = "none"
    /\ UNCHANGED << stream, scan_args, lower, upper, result_buffer, scan_batch,
                    batch_rows, chan, emitted, sql_statements >>
    /\ UNCHANGED << dbvars, procvars, loadvars, prevvars, copyvars >>

\* if page_rx.await.is_err() { return Ok(()) }: the reply starts the next
\* page, a reply channel closed without a reply ends the producer with Ok
ScanPageReply ==
    /\ scan_pc = "wait"
    /\ page_rx \in { "replied", "closed" }
    /\ scan_pc' = IF page_rx = "replied" THEN "query" ELSE "ok"
    /\ page_rx' = "none"
    /\ UNCHANGED << stream, scan_args, lower, upper, result_buffer, scan_batch,
                    batch_rows, chan, emitted, sql_statements >>
    /\ UNCHANGED << dbvars, procvars, loadvars, prevvars, copyvars >>

\* the final flush has sent its last row: Ok(())
ScanReturn ==
    /\ scan_pc = "flush"
    /\ scan_batch = << >>
    /\ scan_pc' = "ok"
    /\ UNCHANGED << stream, scan_args, lower, upper, result_buffer, scan_batch,
                    batch_rows, chan, page_rx, emitted, sql_statements >>
    /\ UNCHANGED << dbvars, procvars, loadvars, prevvars, copyvars >>

\* AbortOnDropHandle: the stream being gone, the task is aborted wherever it is
ScanAbort ==
    /\ RxDropped
    /\ ~ProducerEnded
    /\ scan_pc' = "aborted"
    /\ scan_batch' = << >>
    /\ result_buffer' = << >>
    /\ UNCHANGED << stream, scan_args, lower, upper, batch_rows, chan, page_rx, emitted,
                    sql_statements >>
    /\ UNCHANGED << dbvars, procvars, loadvars, prevvars, copyvars >>

\* the messages of the channel are dropped with its receiver, and a reply
\* sender among them with its message
CloseChannel ==
    /\ chan' = << >>
    /\ page_rx' = IF page_rx = "pending" THEN "closed" ELSE page_rx

\* _index_scan's loop without its ensure!(json_value != JsonValue::Null)
ScanRecv_NoNullCheck ==
    /\ stream = "open"
    /\ chan # << >>
    /\ LET msg == Head(chan)
       IN IF msg[1] = "PageBoundary"
          THEN /\ page_rx' = "replied"
               /\ chan' = Tail(chan)
               /\ UNCHANGED << stream, emitted >>
          ELSE /\ emitted' = Append(emitted, [ key |-> msg[2].key, ts |-> msg[2].ts,
                                               value |-> msg[2].json,
                                               prev_ts |-> msg[2].prev_ts ])
               /\ chan' = Tail(chan)
               /\ UNCHANGED << stream, page_rx >>
    /\ UNCHANGED << scan_args, scan_pc, lower, upper, result_buffer, scan_batch,
                    batch_rows, sql_statements >>
    /\ UNCHANGED << dbvars, procvars, loadvars, prevvars, copyvars >>

\* _index_scan polled by its caller, a message being on the channel: a row is
\* decoded and yielded, a row whose document is a tombstone is an error, and a
\* page boundary is replied to
ScanRecv ==
    /\ stream = "open"
    /\ chan # << >>
    /\ LET msg == Head(chan)
       IN IF msg[1] = "PageBoundary"
          THEN /\ page_rx' = "replied"
               /\ chan' = Tail(chan)
               /\ UNCHANGED << stream, emitted >>
          ELSE IF msg[2].json[1] # "json"
          THEN /\ stream' = "deleted_doc"
               /\ CloseChannel
               /\ UNCHANGED emitted
          ELSE /\ emitted' = Append(emitted, [ key |-> msg[2].key, ts |-> msg[2].ts,
                                               value |-> msg[2].json[2],
                                               prev_ts |-> msg[2].prev_ts ])
               /\ chan' = Tail(chan)
               /\ UNCHANGED << stream, page_rx >>
    /\ UNCHANGED << scan_args, scan_pc, lower, upper, result_buffer, scan_batch,
                    batch_rows, sql_statements >>
    /\ UNCHANGED << dbvars, procvars, loadvars, prevvars, copyvars >>

\* rx.recv() returns None, the producer having ended and the channel being
\* empty: task.await?? ends the stream with what the producer returned
ScanEnd ==
    /\ stream = "open"
    /\ chan = << >>
    /\ ProducerEnded
    /\ stream' = scan_pc
    /\ UNCHANGED << scan_args, scan_pc, lower, upper, result_buffer, scan_batch,
                    batch_rows, chan, page_rx, emitted, sql_statements >>
    /\ UNCHANGED << dbvars, procvars, loadvars, prevvars, copyvars >>

\* the caller drops the stream before its end
ScanDrop ==
    /\ stream = "open"
    /\ stream' = "dropped"
    /\ CloseChannel
    /\ UNCHANGED << scan_args, scan_pc, lower, upper, result_buffer, scan_batch,
                    batch_rows, emitted, sql_statements >>
    /\ UNCHANGED << dbvars, procvars, loadvars, prevvars, copyvars >>

\* no index_scan stream opened yet
NoScan == [ index_id |-> 0, read_timestamp |-> 0,
            interval |-> [ start |-> << >>, end |-> None ],
            order |-> "none", size_hint |-> 0 ]

\* the stream and its producer are over and forgotten
ScanForget ==
    /\ stream \notin { "none", "open" }
    /\ ProducerEnded
    /\ stream' = "none"
    /\ scan_args' = NoScan
    /\ scan_pc' = "idle"
    /\ lower' = Unbounded
    /\ upper' = Unbounded
    /\ result_buffer' = << >>
    /\ scan_batch' = << >>
    /\ batch_rows' = 0
    /\ chan' = << >>
    /\ page_rx' = "none"
    /\ emitted' = << >>
    /\ sql_statements' = 0
    /\ UNCHANGED << dbvars, procvars, loadvars, prevvars, copyvars >>

(* -------------------------- previous_revisions -------------------------- *)

\* WHERE ts <= $3 in place of ts < $3
PREV_REV_Inclusive(rows, q) ==
    { [ row |-> r, query_ts |-> q.ts ] :
      r \in { r \in rows : /\ r.table_id = q.table_id /\ r.id = q.id /\ r.ts <= q.ts
                           /\ \A o \in rows :
                                (o.table_id = q.table_id /\ o.id = q.id /\ o.ts <= q.ts)
                                   => o.ts <= r.ts } }

\* PREV_REV without ORDER BY ts desc LIMIT 1: every revision below the ts
PREV_REV_NoLimit(rows, q) ==
    { [ row |-> r, query_ts |-> q.ts ] :
      r \in { r \in rows : r.table_id = q.table_id /\ r.id = q.id /\ r.ts < q.ts } }

\* PREV_REV: SELECT id, ts, table_id, json_value, deleted, prev_ts, $3 as query_ts
\* FROM documents WHERE table_id = $1 AND id = $2 AND ts < $3
\* ORDER BY ts desc LIMIT 1
PREV_REV(rows, q) ==
    { [ row |-> r, query_ts |-> q.ts ] :
      r \in { r \in rows : /\ r.table_id = q.table_id /\ r.id = q.id /\ r.ts < q.ts
                           /\ \A o \in rows :
                                (o.table_id = q.table_id /\ o.id = q.id /\ o.ts < q.ts)
                                   => o.ts <= r.ts } }

\* PREV_REV_CHUNK: the UNION ALL of CHUNK_SIZE PREV_REV queries
PREV_REV_CHUNK(rows, chunk) ==
    UNION { PREV_REV(rows, chunk[i]) : i \in DOMAIN chunk }

\* result_futures without the loop over chunks.remainder()
RECURSIVE result_futures_NoRemainder(_)
result_futures_NoRemainder(ids) ==
    IF Len(ids) >= CHUNK_SIZE
    THEN << [ statement |-> "PREV_REV_CHUNK", params |-> SubSeq(ids, 1, CHUNK_SIZE) ] >>
            \o result_futures_NoRemainder(SubSeq(ids, CHUNK_SIZE + 1, Len(ids)))
    ELSE << >>

\* previous_revisions' result_futures: one PREV_REV_CHUNK statement for every
\* chunk of ids.chunks_exact(CHUNK_SIZE), with the ids of the chunk as its
\* parameters, then one PREV_REV statement for each id of chunks.remainder()
RECURSIVE result_futures(_)
result_futures(ids) ==
    IF Len(ids) >= CHUNK_SIZE
    THEN << [ statement |-> "PREV_REV_CHUNK", params |-> SubSeq(ids, 1, CHUNK_SIZE) ] >>
            \o result_futures(SubSeq(ids, CHUNK_SIZE + 1, Len(ids)))
    ELSE [ i \in 1..Len(ids) |-> [ statement |-> "PREV_REV", params |-> << ids[i] >> ] ]

\* the (id, ts) pairs a caller may ask previous_revisions about
PrevIds == [ table_id : 1..MaxId, id : 1..MaxId, ts : 1..(MaxDocTs + 1) ]

\* the sets of them it may pass: none, one, and sets large enough to fill a
\* chunk and leave two or more over
PrevIdSets ==
    { S \in SUBSET PrevIds : Cardinality(S) <= 1 \/ Cardinality(S) >= CHUNK_SIZE + 2 }

(* ------------- the statements of previous_revisions_of_documents ---------- *)

\* the latest revision at or before $3 in place of the one at exactly $3
EXACT_REV_AtOrBefore(rows, q) ==
    { [ row |-> r, query_ts |-> q.ts ] :
      r \in { r \in rows : /\ r.table_id = q.table_id /\ r.id = q.id /\ r.ts <= q.prev_ts
                           /\ \A o \in rows :
                                (o.table_id = q.table_id /\ o.id = q.id /\ o.ts <= q.prev_ts)
                                   => o.ts <= r.ts } }

\* EXACT_REV: SELECT id, ts, table_id, json_value, deleted, prev_ts, $4 as query_ts
\* FROM documents WHERE table_id = $1 AND id = $2 AND ts = $3
EXACT_REV(rows, q) ==
    { [ row |-> r, query_ts |-> q.ts ] :
      r \in { r \in rows : r.table_id = q.table_id /\ r.id = q.id /\ r.ts = q.prev_ts } }

\* EXACT_REV_CHUNK: the UNION ALL of CHUNK_SIZE EXACT_REV queries
EXACT_REV_CHUNK(rows, chunk) ==
    UNION { EXACT_REV(rows, chunk[i]) : i \in DOMAIN chunk }

\* previous_revisions_of_documents' result_futures: one EXACT_REV_CHUNK
\* statement for every chunk of ids.chunks_exact(CHUNK_SIZE), then one EXACT_REV
\* statement for each request of chunks.remainder()
RECURSIVE exact_result_futures(_)
exact_result_futures(ids) ==
    IF Len(ids) >= CHUNK_SIZE
    THEN << [ statement |-> "EXACT_REV_CHUNK", params |-> SubSeq(ids, 1, CHUNK_SIZE) ] >>
            \o exact_result_futures(SubSeq(ids, CHUNK_SIZE + 1, Len(ids)))
    ELSE [ i \in 1..Len(ids) |-> [ statement |-> "EXACT_REV", params |-> << ids[i] >> ] ]

\* the DocumentPrevTsQuery { id, ts, prev_ts } requests a caller may make
DocumentPrevTsQuery ==
    { q \in [ table_id : 1..MaxId, id : 1..MaxId,
              ts : 1..(MaxDocTs + 1), prev_ts : 1..MaxDocTs ] : q.prev_ts < q.ts }

\* the sets of them it may pass: none, one, and sets large enough to fill a
\* chunk
DocumentPrevTsQuerySets ==
    { S \in SUBSET DocumentPrevTsQuery :
        Cardinality(S) <= 1 \/ Cardinality(S) >= CHUNK_SIZE + 3 }

(* ------------------------- the buffered queries ------------------------- *)

\* env_config("PIPELINE_QUERIES", 16): the number of statements the buffered
\* stream keeps in progress, scaled down with the number of statements of a call
PIPELINE_QUERIES == 2

\* client.query_raw(&statement, params), once awaited: the rows of the statement
query_raw(rows, s) ==
    CASE s.statement = "PREV_REV_CHUNK"  -> PREV_REV_CHUNK(rows, s.params)
      [] s.statement = "PREV_REV"        -> PREV_REV(rows, s.params[1])
      [] s.statement = "EXACT_REV_CHUNK" -> EXACT_REV_CHUNK(rows, s.params)
      [] s.statement = "EXACT_REV"       -> EXACT_REV(rows, s.params[1])

\* a buffered stream that starts all its futures when it is first polled
Buffered_Eager(statements) ==
    /\ pipe_started < Len(statements)
    /\ pipe_started' = Len(statements)
    /\ UNCHANGED pipe_taken

\* stream::iter(result_futures).buffered(*PIPELINE_QUERIES) polled: while fewer
\* than PIPELINE_QUERIES futures are in progress and one is left, the next is
\* started, which is when its query_raw begins to execute
Buffered(statements) ==
    /\ pipe_started < Len(statements)
    /\ pipe_started - pipe_taken < PIPELINE_QUERIES
    /\ pipe_started' = pipe_started + 1
    /\ UNCHANGED pipe_taken

\* the buffered stream has started every future it has room for and can hand
\* over the rows of the oldest one
Ready(statements) ==
    /\ pipe_taken < pipe_started
    /\ pipe_started = Len(statements) \/ pipe_started - pipe_taken = PIPELINE_QUERIES

\* the key under which an entry is inserted in the result map
MapKey(x) == [ f \in DOMAIN x \ { "entry" } |-> x[f] ]

\* result.insert(key, entry) finds the key taken: two of the rows are entered
\* under one key
KeyTaken(map, new) ==
    \E x \in new : \E y \in map \cup new : y # x /\ MapKey(x) = MapKey(y)

\* ensure!(result.insert(key, entry).is_none()) for every row: the map with
\* the rows entered, or the failure of the call
Insert(map, new) ==
    IF KeyTaken(map, new) THEN [ ok |-> FALSE, map |-> {} ]
    ELSE [ ok |-> TRUE, map |-> map \cup new ]

(* ------------------- the calls of previous_revisions ------------------- *)

\* previous_revisions is called on a reader of a constructed
\* PostgresPersistence: it builds its statements and the buffered stream of
\* them on one connection of the read pool
PreviousRevisions ==
    /\ prev_pc = "idle"
    /\ exact_pc = "idle"
    /\ \E p \in Procs : lease_ts[p] # 0
    /\ \E S \in PrevIdSets :
         /\ prev_ids' = S
         /\ prev_statements' = result_futures(SetToSeq(S))
    /\ prev_result' = {}
    /\ prev_pc' = "pipeline"
    /\ pipe_started' = 0
    /\ pipe_taken' = 0
    /\ UNCHANGED << exact_pc, exact_ids, exact_result, exact_statements >>
    /\ UNCHANGED << dbvars, procvars, loadvars, scanvars, copyvars >>

\* result_stream.try_next() polls the buffered stream, which starts a statement
PrevBuffered ==
    /\ prev_pc = "pipeline"
    /\ Buffered(prev_statements)
    /\ UNCHANGED << prev_pc, prev_ids, prev_result, prev_statements >>
    /\ UNCHANGED << exact_pc, exact_ids, exact_result, exact_statements >>
    /\ UNCHANGED << dbvars, procvars, loadvars, scanvars, copyvars >>

\* the rows of the oldest statement in progress: every row is decoded and
\* entered in result under (id, query_ts); a row that does not decode or a key
\* already taken ends the call with an error
PrevRows ==
    /\ prev_pc = "pipeline"
    /\ Ready(prev_statements)
    /\ LET found == query_raw(documents, prev_statements[pipe_taken + 1])
           new == { [ id |-> << f.row.table_id, f.row.id >>, ts |-> f.query_ts,
                      entry |-> row_to_document(f.row) ] : f \in found }
       IN IF \E f \in found : ~Decodes(f.row)
          THEN /\ prev_pc' = "failed"
               /\ prev_result' = {}
               /\ pipe_started' = 0
               /\ pipe_taken' = 0
          ELSE IF ~Insert(prev_result, new).ok
          THEN /\ prev_pc' = "duplicate"
               /\ prev_result' = {}
               /\ pipe_started' = 0
               /\ pipe_taken' = 0
          ELSE /\ prev_result' = Insert(prev_result, new).map
               /\ pipe_taken' = pipe_taken + 1
               /\ UNCHANGED << prev_pc, pipe_started >>
    /\ UNCHANGED << prev_ids, prev_statements >>
    /\ UNCHANGED << exact_pc, exact_ids, exact_result, exact_statements >>
    /\ UNCHANGED << dbvars, procvars, loadvars, scanvars, copyvars >>

\* result_stream.try_next() returns None: every statement has been read
PrevDrained ==
    /\ prev_pc = "pipeline"
    /\ pipe_taken = Len(prev_statements)
    /\ prev_pc' = "validate"
    /\ pipe_started' = 0
    /\ pipe_taken' = 0
    /\ UNCHANGED << prev_ids, prev_result, prev_statements >>
    /\ UNCHANGED << exact_pc, exact_ids, exact_result, exact_statements >>
    /\ UNCHANGED << dbvars, procvars, loadvars, scanvars, copyvars >>

\* previous_revisions: validate_document_snapshot(min_ts), whose answer is the
\* retention validator's; then Ok(result)
PrevValidate ==
    /\ prev_pc = "validate"
    /\ \E valid \in BOOLEAN :
         IF valid
         THEN /\ prev_pc' = "ok"
              /\ UNCHANGED prev_result
         ELSE /\ prev_pc' = "failed"
              /\ prev_result' = {}
    /\ UNCHANGED << prev_ids, prev_statements, pipe_started, pipe_taken >>
    /\ UNCHANGED << exact_pc, exact_ids, exact_result, exact_statements >>
    /\ UNCHANGED << dbvars, procvars, loadvars, scanvars, copyvars >>

\* the caller has taken what previous_revisions returned
PrevReturn ==
    /\ prev_pc \in { "ok", "failed", "duplicate" }
    /\ prev_pc' = "idle"
    /\ prev_ids' = {}
    /\ prev_result' = {}
    /\ prev_statements' = << >>
    /\ UNCHANGED << pipe_started, pipe_taken >>
    /\ UNCHANGED << exact_pc, exact_ids, exact_result, exact_statements >>
    /\ UNCHANGED << dbvars, procvars, loadvars, scanvars, copyvars >>

(* -------------------- previous_revisions_of_documents ------------------- *)

\* previous_revisions_of_documents is called on a reader of a constructed
\* PostgresPersistence: it builds its statements and the buffered stream of
\* them on one connection of the read pool
PreviousRevisionsOfDocuments ==
    /\ exact_pc = "idle"
    /\ prev_pc = "idle"
    /\ \E p \in Procs : lease_ts[p] # 0
    /\ \E S \in DocumentPrevTsQuerySets :
         /\ exact_ids' = S
         /\ exact_statements' = exact_result_futures(SetToSeq(S))
    /\ exact_result' = {}
    /\ exact_pc' = "pipeline"
    /\ pipe_started' = 0
    /\ pipe_taken' = 0
    /\ UNCHANGED << prev_pc, prev_ids, prev_result, prev_statements >>
    /\ UNCHANGED << dbvars, procvars, loadvars, scanvars, copyvars >>

\* result_stream.try_next() polls the buffered stream, which starts a statement
ExactBuffered ==
    /\ exact_pc = "pipeline"
    /\ Buffered(exact_statements)
    /\ UNCHANGED << exact_pc, exact_ids, exact_result, exact_statements >>
    /\ UNCHANGED << prev_pc, prev_ids, prev_result, prev_statements >>
    /\ UNCHANGED << dbvars, procvars, loadvars, scanvars, copyvars >>

\* the rows of the oldest statement in progress: every row is decoded and
\* entered in result under DocumentPrevTsQuery { id, ts: query_ts, prev_ts:
\* the row's ts }; a row that does not decode or a key already taken ends the
\* call with an error
ExactRows ==
    /\ exact_pc = "pipeline"
    /\ Ready(exact_statements)
    /\ LET found == query_raw(documents, exact_statements[pipe_taken + 1])
           new == { [ id |-> << f.row.table_id, f.row.id >>, ts |-> f.query_ts,
                      prev_ts |-> f.row.ts,
                      entry |-> row_to_document(f.row) ] : f \in found }
       IN IF \E f \in found : ~Decodes(f.row)
          THEN /\ exact_pc' = "failed"
               /\ exact_result' = {}
               /\ pipe_started' = 0
               /\ pipe_taken' = 0
          ELSE IF ~Insert(exact_result, new).ok
          THEN /\ exact_pc' = "duplicate"
               /\ exact_result' = {}
               /\ pipe_started' = 0
               /\ pipe_taken' = 0
          ELSE /\ exact_result' = Insert(exact_result, new).map
               /\ pipe_taken' = pipe_taken + 1
               /\ UNCHANGED << exact_pc, pipe_started >>
    /\ UNCHANGED << exact_ids, exact_statements >>
    /\ UNCHANGED << prev_pc, prev_ids, prev_result, prev_statements >>
    /\ UNCHANGED << dbvars, procvars, loadvars, scanvars, copyvars >>

\* result_stream.try_next() returns None: every statement has been read
ExactDrained ==
    /\ exact_pc = "pipeline"
    /\ pipe_taken = Len(exact_statements)
    /\ exact_pc' = "validate"
    /\ pipe_started' = 0
    /\ pipe_taken' = 0
    /\ UNCHANGED << exact_ids, exact_result, exact_statements >>
    /\ UNCHANGED << prev_pc, prev_ids, prev_result, prev_statements >>
    /\ UNCHANGED << dbvars, procvars, loadvars, scanvars, copyvars >>

\* previous_revisions_of_documents: validate_document_snapshot of the least
\* ts of ids, if there is one; then Ok(result)
ExactValidate ==
    /\ exact_pc = "validate"
    /\ \E valid \in (IF exact_ids = {} THEN { TRUE } ELSE BOOLEAN) :
         IF valid
         THEN /\ exact_pc' = "ok"
              /\ UNCHANGED exact_result
         ELSE /\ exact_pc' = "failed"
              /\ exact_result' = {}
    /\ UNCHANGED << exact_ids, exact_statements, pipe_started, pipe_taken >>
    /\ UNCHANGED << prev_pc, prev_ids, prev_result, prev_statements >>
    /\ UNCHANGED << dbvars, procvars, loadvars, scanvars, copyvars >>

\* the caller has taken what previous_revisions_of_documents returned
ExactReturn ==
    /\ exact_pc \in { "ok", "failed", "duplicate" }
    /\ exact_pc' = "idle"
    /\ exact_ids' = {}
    /\ exact_result' = {}
    /\ exact_statements' = << >>
    /\ UNCHANGED << pipe_started, pipe_taken >>
    /\ UNCHANGED << prev_pc, prev_ids, prev_result, prev_statements >>
    /\ UNCHANGED << dbvars, procvars, loadvars, scanvars, copyvars >>

(* ------------------------ import_documents_batch ------------------------ *)

\* ROWS_PER_COPY_BATCH is 1_000_000 rows; streams here are a few rows long,
\* so the limit is scaled down with them
ROWS_PER_COPY_BATCH == 2

\* the most rows of a stream, the most rows of a chunk, the most chunks
MaxImportRows == 5
MaxChunkRows == 3
MaxChunks == 4

\* COPY documents (id, ts, table_id, json_value, deleted, prev_ts) FROM STDIN
\* BINARY, finished: the rows written to it are inserted, all or (on a
\* duplicate primary key) none
COPY_DOCUMENTS(view, rows) == PlainInsert("documents", view, rows)

\* the n-th revision of the log that is imported
ImportEntry(n) ==
    [ ts |-> ((n - 1) % MaxDocTs) + 1, table_id |-> 1, id |-> ((n - 1) \div MaxDocTs) + 1,
      value |-> IF n % 3 = 0 THEN None ELSE Some("A"),
      prev_ts |-> None ]

\* the log from its entry `from` on, cut into chunks of the given sizes
RECURSIVE ChunksOf(_, _)
ChunksOf(sizes, from) ==
    IF sizes = << >> THEN << >>
    ELSE << [ i \in 1..Head(sizes) |-> ImportEntry(from + i - 1) ] >>
            \o ChunksOf(Tail(sizes), from + Head(sizes))

\* the number of rows of a stream of chunks
RECURSIVE RowsOf(_)
RowsOf(chunks) == IF chunks = << >> THEN 0 ELSE Len(Head(chunks)) + RowsOf(Tail(chunks))

\* the streams a caller may pass: the log cut in every way, and the same
\* followed by a chunk that repeats its first row
ImportStreams ==
    LET cut == { c \in { ChunksOf(sizes, 1) : sizes \in SeqsUpTo(0..MaxChunkRows, MaxChunks) } :
                   RowsOf(c) <= MaxImportRows }
    IN cut \cup { Append(c, << ImportEntry(1) >>) : c \in { d \in cut : RowsOf(d) >= 1 } }

\* import_documents_batch is called on a constructed PostgresPersistence: the
\* first COPY is started
ImportDocumentsBatch ==
    /\ import_pc = "idle"
    /\ \E p \in Procs :
         /\ lease_ts[p] # 0
         /\ import_by' = p
         /\ overtaken_at_begin' = [ overtaken_at_begin EXCEPT ![p] = Overtaken(p) ]
    /\ \E chunks \in ImportStreams : import_stream' = chunks
    /\ import_pc' = "copy"
    /\ import_next' = 1
    /\ copy_writer' = << >>
    /\ batch_count' = 0
    /\ copies' = << >>
    /\ UNCHANGED << pc, acquire_ts, lease_ts, newly_created, op, advisory_done, f_done,
                    staged, result, signals, lost_once, args, allow_read_only,
                    delete_call, retry >>
    /\ UNCHANGED << dbvars, loadvars, scanvars, prevvars >>

\* a chunk whose rows are dropped with the COPY that is full
ImportChunk_NoFinish ==
    /\ import_pc = "copy"
    /\ import_next <= Len(import_stream)
    /\ LET chunk == import_stream[import_next]
           written == copy_writer \o [ i \in DOMAIN chunk |-> document_params(chunk[i]) ]
           count == batch_count + Len(chunk)
       IN IF count >= ROWS_PER_COPY_BATCH
          THEN /\ copies' = Append(copies, Len(written))
               /\ copy_writer' = << >>
               /\ batch_count' = 0
               /\ UNCHANGED << documents, import_pc >>
          ELSE /\ copy_writer' = written
               /\ batch_count' = count
               /\ UNCHANGED << documents, copies, import_pc >>
    /\ import_next' = import_next + 1
    /\ UNCHANGED << import_stream, import_by >>
    /\ UNCHANGED << leases, indexes, read_only, persistence_globals >>
    /\ UNCHANGED << procvars, loadvars, scanvars, prevvars >>

\* import_documents_batch: documents.next() returns a chunk, whose rows are
\* written to the COPY; with batch_count at ROWS_PER_COPY_BATCH or beyond the
\* COPY is finished and the next one started
ImportChunk ==
    /\ import_pc = "copy"
    /\ import_next <= Len(import_stream)
    /\ LET chunk == import_stream[import_next]
           written == copy_writer \o [ i \in DOMAIN chunk |-> document_params(chunk[i]) ]
           count == batch_count + Len(chunk)
       IN IF count >= ROWS_PER_COPY_BATCH
          THEN IF COPY_DOCUMENTS(documents, written).ok
               THEN /\ documents' = Committed(documents, COPY_DOCUMENTS(documents, written))
                    /\ copies' = Append(copies, Len(written))
                    /\ copy_writer' = << >>
                    /\ batch_count' = 0
                    /\ UNCHANGED import_pc
               ELSE /\ import_pc' = "failed"
                    /\ copy_writer' = << >>
                    /\ batch_count' = count
                    /\ UNCHANGED << documents, copies >>
          ELSE /\ copy_writer' = written
               /\ batch_count' = count
               /\ UNCHANGED << documents, copies, import_pc >>
    /\ import_next' = import_next + 1
    /\ UNCHANGED << import_stream, import_by >>
    /\ UNCHANGED << leases, indexes, read_only, persistence_globals >>
    /\ UNCHANGED << procvars, loadvars, scanvars, prevvars >>

\* an end of the stream at which the last COPY is finished only by an instance
\* that holds the lease
ImportEnd_Leased ==
    /\ import_pc = "copy"
    /\ import_next > Len(import_stream)
    /\ IF /\ \E r \in leases : r.id = 1 /\ r.ts = lease_ts[import_by]
          /\ COPY_DOCUMENTS(documents, copy_writer).ok
       THEN /\ documents' = Committed(documents, COPY_DOCUMENTS(documents, copy_writer))
            /\ copies' = Append(copies, Len(copy_writer))
            /\ import_pc' = "ok"
       ELSE /\ import_pc' = "failed"
            /\ UNCHANGED << documents, copies >>
    /\ copy_writer' = << >>
    /\ UNCHANGED << import_stream, import_by, import_next, batch_count >>
    /\ UNCHANGED << leases, indexes, read_only, persistence_globals >>
    /\ UNCHANGED << procvars, loadvars, scanvars, prevvars >>

\* import_documents_batch: documents.next() returns None; the COPY is
\* finished and Ok(()) returned
ImportEnd ==
    /\ import_pc = "copy"
    /\ import_next > Len(import_stream)
    /\ IF COPY_DOCUMENTS(documents, copy_writer).ok
       THEN /\ documents' = Committed(documents, COPY_DOCUMENTS(documents, copy_writer))
            /\ copies' = Append(copies, Len(copy_writer))
            /\ import_pc' = "ok"
       ELSE /\ import_pc' = "failed"
            /\ UNCHANGED << documents, copies >>
    /\ copy_writer' = << >>
    /\ UNCHANGED << import_stream, import_by, import_next, batch_count >>
    /\ UNCHANGED << leases, indexes, read_only, persistence_globals >>
    /\ UNCHANGED << procvars, loadvars, scanvars, prevvars >>

\* the caller has taken what import_documents_batch returned
ImportReturn ==
    /\ import_pc \in { "ok", "failed" }
    /\ import_pc' = "idle"
    /\ import_by' = 0
    /\ import_stream' = << >>
    /\ import_next' = 0
    /\ batch_count' = 0
    /\ copies' = << >>
    /\ UNCHANGED copy_writer
    /\ UNCHANGED << dbvars, procvars, loadvars, scanvars, prevvars >>

(* ------------------------- import_indexes_batch ------------------------- *)

\* COPY indexes (index_id, ts, key_prefix, key_suffix, key_sha256, deleted,
\* table_id, document_id) FROM STDIN BINARY, finished
COPY_INDEXES(view, rows) == PlainInsert("indexes", view, rows)

\* the index entries that are imported: three revisions of one key, the
\* second a tombstone
ImportIndexEntries ==
    { [ index_id |-> 1, key |-> << 1 >>, ts |-> n,
        value |-> IF n = 2 THEN None ELSE Some(<< 1, 1 >>) ] : n \in 1..3 }

\* the streams a caller may pass: up to two chunks, each a set of entries
ImportIndexStreams == SeqsUpTo(SUBSET ImportIndexEntries, 2)

\* import_indexes_batch is called on a constructed PostgresPersistence: the
\* first COPY is started
ImportIndexesBatch ==
    /\ import_pc = "idle"
    /\ \E p \in Procs :
         /\ lease_ts[p] # 0
         /\ import_by' = p
         /\ overtaken_at_begin' = [ overtaken_at_begin EXCEPT ![p] = Overtaken(p) ]
    /\ \E chunks \in ImportIndexStreams : import_stream' = chunks
    /\ import_pc' = "copy_indexes"
    /\ import_next' = 1
    /\ copy_writer' = << >>
    /\ batch_count' = 0
    /\ copies' = << >>
    /\ UNCHANGED << pc, acquire_ts, lease_ts, newly_created, op, advisory_done, f_done,
                    staged, result, signals, lost_once, args, allow_read_only,
                    delete_call, retry >>
    /\ UNCHANGED << dbvars, loadvars, scanvars, prevvars >>

\* import_indexes_batch: indexes.next() returns a chunk, whose entries are
\* written to the COPY; with batch_count at ROWS_PER_COPY_BATCH or beyond the
\* COPY is finished and the next one started
ImportIndexChunk ==
    /\ import_pc = "copy_indexes"
    /\ import_next <= Len(import_stream)
    /\ LET chunk == SetToSeq(import_stream[import_next])
           written == copy_writer \o [ i \in DOMAIN chunk |-> index_params(chunk[i]) ]
           count == batch_count + Len(chunk)
       IN IF count >= ROWS_PER_COPY_BATCH
          THEN IF COPY_INDEXES(indexes, written).ok
               THEN /\ indexes' = Committed(indexes, COPY_INDEXES(indexes, written))
                    /\ copies' = Append(copies, Len(written))
                    /\ copy_writer' = << >>
                    /\ batch_count' = 0
                    /\ UNCHANGED import_pc
               ELSE /\ import_pc' = "failed"
                    /\ copy_writer' = << >>
                    /\ batch_count' = count
                    /\ UNCHANGED << indexes, copies >>
          ELSE /\ copy_writer' = written
               /\ batch_count' = count
               /\ UNCHANGED << indexes, copies, import_pc >>
    /\ import_next' = import_next + 1
    /\ UNCHANGED << import_stream, import_by >>
    /\ UNCHANGED << leases, documents, read_only, persistence_globals >>
    /\ UNCHANGED << procvars, loadvars, scanvars, prevvars >>

\* import_indexes_batch: indexes.next() returns None; the COPY is finished
\* and Ok(()) returned
ImportIndexEnd ==
    /\ import_pc = "copy_indexes"
    /\ import_next > Len(import_stream)
    /\ IF COPY_INDEXES(indexes, copy_writer).ok
       THEN /\ indexes' = Committed(indexes, COPY_INDEXES(indexes, copy_writer))
            /\ copies' = Append(copies, Len(copy_writer))
            /\ import_pc' = "ok"
       ELSE /\ import_pc' = "failed"
            /\ UNCHANGED << indexes, copies >>
    /\ copy_writer' = << >>
    /\ UNCHANGED << import_stream, import_by, import_next, batch_count >>
    /\ UNCHANGED << leases, documents, read_only, persistence_globals >>
    /\ UNCHANGED << procvars, loadvars, scanvars, prevvars >>

Next ==
    \E p \in Procs :
        \/ InitSql(p)
        \/ CheckReadOnly(p)
        \/ CheckNewlyCreated(p)
        \/ AcquireClock(p)
        \/ AcquireExecute(p)
        \/ AcquireResume(p)
        \/ Begin(p, Ops, SeqsUpTo(LeaseEntries, 1), { LeaseIndexEntries },
                 ConflictStrategy)
        \/ AdvisoryLeaseCheck(p)
        \/ WriteF(p)
        \/ DeleteF(p)
        \/ DeleteIndexEntriesF(p)
        \/ SetReadOnlyF(p)
        \/ WritePersistenceGlobalF(p)
        \/ LeasePrecond(p)
        \/ Commit(p)
        \/ Done(p)

Spec == Init /\ [][Next]_vars

(* ------------------------------------------------------------------------ *)
(* The write path: one PostgresPersistence writing batches of documents and *)
(* index entries under both conflict strategies                             *)
(* ------------------------------------------------------------------------ *)

NextWrite ==
    \E p \in { 1 } :
        \/ InitSql(p)
        \/ CheckReadOnly(p)
        \/ CheckNewlyCreated(p)
        \/ AcquireClock(p)
        \/ AcquireExecute(p)
        \/ Begin(p, { "write" }, SeqsUpTo(WriteEntries, MaxWriteDocs),
                 SUBSET WriteIndexEntries, ConflictStrategy)
        \/ AdvisoryLeaseCheck(p)
        \/ WriteF(p)
        \/ LeasePrecond(p)
        \/ Commit(p)
        \/ Done(p)

SpecWrite == Init /\ [][NextWrite]_vars

(* ------------------------------------------------------------------------ *)
(* The document log read back: a client writes a set of revisions into the  *)
(* empty log with write(docs, {}, Error) and, the write having returned,    *)
(* streams the log with load_documents                                      *)
(* ------------------------------------------------------------------------ *)

\* longest `documents` vector the client hands to one write()
MaxLoadDocs == 3

\* the revisions the client may write: every (ts, table_id, id), live ones and
\* tombstones, with and without prev_ts
LoadEntries ==
    { [ ts |-> ts, table_id |-> t, id |-> i,
        value |-> IF (ts + t + i) % 3 = 0 THEN None ELSE Some("A"),
        prev_ts |-> IF ts > 1 /\ i = 1 THEN Some(ts - 1) ELSE None ] :
      ts \in 1..MaxDocTs, t \in 1..MaxId, i \in 1..MaxId }

\* the client's write() into the empty log, no stream being open and no
\* previous_revisions call under way
ClientWrite(p) ==
    /\ reader_pc = "idle"
    /\ prev_pc = "idle"
    /\ exact_pc = "idle"
    /\ documents = {}
    /\ Begin(p, { "write" }, SeqsUpTo(LoadEntries, MaxLoadDocs), { {} }, { "Error" })

\* the client's load_documents, no write being under way
ClientLoad ==
    /\ \A p \in Procs : pc[p] \notin { "tx", "locked", "returned" }
    /\ LoadDocuments

NextLoad ==
    \/ \E p \in { 1 } :
        \/ InitSql(p)
        \/ CheckReadOnly(p)
        \/ CheckNewlyCreated(p)
        \/ AcquireClock(p)
        \/ AcquireExecute(p)
        \/ ClientWrite(p)
        \/ AdvisoryLeaseCheck(p)
        \/ WriteF(p)
        \/ LeasePrecond(p)
        \/ Commit(p)
        \/ Done(p)
    \/ ClientLoad
    \/ LoadPage
    \/ ValidateSnapshot
    \/ DropStream

\* a stream that is being drained keeps running its loop
SpecLoad ==
    Init /\ [][NextLoad]_vars /\ WF_vars(LoadPage) /\ WF_vars(ValidateSnapshot)

(* ------------------------------------------------------------------------ *)
(* An index read back: a client commits index entries together with their   *)
(* documents, first the entries of timestamp 1 and then a change of one key *)
(* at timestamp 2, and reads them with index_scan and load_documents        *)
(* ------------------------------------------------------------------------ *)

\* the document a key of the model points to: table 1 and the position of the
\* key in ScanKeys
ScanDocId(key) == CHOOSE i \in DOMAIN ScanKeys : ScanKeys[i] = key

\* what a commit may do to a key: write a new version of its document, delete
\* it, enter the key for a document it does not write, or enter it for a
\* document it deletes
ScanKinds == { "live", "tombstone", "dangling", "deleted_doc" }

\* the DocumentLogEntry values and the PersistenceIndexEntry of such a change
ScanDocs(key, ts, kind) ==
    IF kind = "dangling" THEN {}
    ELSE { [ ts |-> ts, table_id |-> 1, id |-> ScanDocId(key),
             value |-> IF kind = "live" THEN Some("A") ELSE None,
             prev_ts |-> IF ts > 1 THEN Some(ts - 1) ELSE None ] }
ScanIndex(key, ts, kind) ==
    [ index_id |-> 1, key |-> key, ts |-> ts,
      value |-> IF kind = "tombstone" THEN None ELSE Some(<< 1, ScanDocId(key) >>) ]

\* the client's write(): the first commit enters a set of keys with their
\* documents at timestamp 1, no stream being open; the second changes one key
\* at timestamp 2
ClientIndexWrite(p) ==
    \/ /\ stream = "none"
       /\ reader_pc = "idle"
       /\ indexes = {}
       /\ \E S \in { Range(ScanKeys), Range(ScanKeys) \ { ScanKeys[2] } } :
            /\ Begin(p, { "write" },
                     { SetToSeq(UNION { ScanDocs(k, 1, "live") : k \in S }) },
                     { { ScanIndex(k, 1, "live") : k \in S } }, { "Error" })
    \/ /\ stream = "none"
       /\ reader_pc = "idle"
       /\ \A r \in indexes : r.ts < MaxDocTs
       /\ \E k \in Range(ScanKeys), kind \in ScanKinds :
            Begin(p, { "write" }, { SetToSeq(ScanDocs(k, MaxDocTs, kind)) },
                  { { ScanIndex(k, MaxDocTs, kind) } }, { "Error" })

\* the client's index_scan: its read_timestamp is that of a snapshot, below the
\* timestamp of every write under way
ClientIndexScan ==
    \E a \in ScanArgs :
        /\ \A p \in Procs :
             pc[p] \in { "tx", "locked" } =>
                 \A u \in args[p].indexes : u.ts > a.read_timestamp
        /\ IndexScan({ a })

\* the client's load_documents, no write being under way
ClientIndexLoad ==
    /\ \A p \in Procs : pc[p] \notin { "tx", "locked", "returned" }
    /\ LoadDocuments

NextScan ==
    \/ \E p \in { 1 } :
        \/ InitSql(p)
        \/ CheckReadOnly(p)
        \/ CheckNewlyCreated(p)
        \/ AcquireClock(p)
        \/ AcquireExecute(p)
        \/ ClientIndexWrite(p)
        \/ AdvisoryLeaseCheck(p)
        \/ WriteF(p)
        \/ LeasePrecond(p)
        \/ Commit(p)
        \/ Done(p)
    \/ ClientIndexScan
    \/ ScanPage
    \/ ScanValidate
    \/ ScanSendRow
    \/ ScanPageEnd
    \/ ScanSendBoundary
    \/ ScanPageReply
    \/ ScanReturn
    \/ ScanAbort
    \/ ScanRecv
    \/ ScanEnd
    \/ ScanDrop
    \/ ScanForget
    \/ ClientIndexLoad
    \/ LoadPage
    \/ ValidateSnapshot
    \/ DropStream

SpecScan == Init /\ [][NextScan]_vars


(* ------------------------------------------------------------------------ *)
(* Revisions looked up: a client writes a set of revisions into the empty   *)
(* log and, the write having returned, asks for previous revisions          *)
(* ------------------------------------------------------------------------ *)

\* the client's previous_revisions, no write being under way
ClientPreviousRevisions ==
    /\ \A p \in Procs : pc[p] \notin { "tx", "locked", "returned" }
    /\ PreviousRevisions

\* the client's previous_revisions_of_documents, no write being under way
ClientPreviousRevisionsOfDocuments ==
    /\ \A p \in Procs : pc[p] \notin { "tx", "locked", "returned" }
    /\ PreviousRevisionsOfDocuments

NextPrev ==
    \/ \E p \in { 1 } :
        \/ InitSql(p)
        \/ CheckReadOnly(p)
        \/ CheckNewlyCreated(p)
        \/ AcquireClock(p)
        \/ AcquireExecute(p)
        \/ ClientWrite(p)
        \/ AdvisoryLeaseCheck(p)
        \/ WriteF(p)
        \/ LeasePrecond(p)
        \/ Commit(p)
        \/ Done(p)
    \/ ClientPreviousRevisions
    \/ PrevBuffered
    \/ PrevRows
    \/ PrevDrained
    \/ PrevValidate
    \/ PrevReturn
    \/ ClientPreviousRevisionsOfDocuments
    \/ ExactBuffered
    \/ ExactRows
    \/ ExactDrained
    \/ ExactValidate
    \/ ExactReturn

SpecPrev == Init /\ [][NextPrev]_vars

(* ------------------------------------------------------------------------ *)
(* A log imported: a client constructs the backend on an empty database and *)
(* imports a stream of chunks, no other call being made meanwhile           *)
(* ------------------------------------------------------------------------ *)

\* the client's import_documents_batch into the empty documents table
ClientImport ==
    /\ documents = {}
    /\ ImportDocumentsBatch

NextImport ==
    \/ \E p \in { 1 } :
        \/ InitSql(p)
        \/ CheckReadOnly(p)
        \/ CheckNewlyCreated(p)
        \/ AcquireClock(p)
        \/ AcquireExecute(p)
    \/ ClientImport
    \/ ImportChunk
    \/ ImportEnd
    \/ ImportReturn

SpecImport == Init /\ [][NextImport]_vars

(* ------------------------------------------------------------------------ *)
(* Revisions deleted: a client writes a set of revisions into the empty log *)
(* and then deletes with vectors of (ts, id) pairs of every length          *)
(* ------------------------------------------------------------------------ *)

\* the (ts, id) pairs a client may pass to delete()
DeletePairs == [ ts : 1..MaxDocTs, table_id : 1..MaxId, id : 1..MaxId ]

\* the vectors of them it may pass: every set of pairs in some order, up to a
\* full chunk, and the larger sets twice over, which overflows a chunk
DeleteVectors ==
    { SetToSeq(S) : S \in SUBSET DeletePairs }
        \cup { SetToSeq(S) \o SetToSeq(S) :
                 S \in { T \in SUBSET DeletePairs : 2 * Cardinality(T) > CHUNK_SIZE } }

\* the client's delete(), once something is written
ClientBeginDelete(p) ==
    /\ documents # {}
    /\ Begin(p, { "delete" }, { << >> }, { {} }, { "Error" })

NextDelete ==
    \E p \in { 1 } :
        \/ InitSql(p)
        \/ CheckReadOnly(p)
        \/ CheckNewlyCreated(p)
        \/ AcquireClock(p)
        \/ AcquireExecute(p)
        \/ ClientWrite(p)
        \/ ClientBeginDelete(p)
        \/ AdvisoryLeaseCheck(p)
        \/ WriteF(p)
        \/ Delete(p, DeleteVectors)
        \/ LeasePrecond(p)
        \/ Commit(p)
        \/ Done(p)

SpecDelete == Init /\ [][NextDelete]_vars

(* ------------------------------------------------------------------------ *)
(* Connections that fail: one PostgresPersistence whose calls may find the  *)
(* transaction refused at the first attempt, and again after reconnecting   *)
(* ------------------------------------------------------------------------ *)

NextTransact ==
    \E p \in { 1 } :
        \/ InitSql(p)
        \/ CheckReadOnly(p)
        \/ CheckNewlyCreated(p)
        \/ AcquireClock(p)
        \/ AcquireExecute(p)
        \/ Transact(p, Ops, SeqsUpTo(LeaseEntries, 1), { LeaseIndexEntries },
                    ConflictStrategy, { "Ok", "Err" })
        \/ RetryLoop(p)
        \/ AdvisoryLeaseCheck(p)
        \/ WriteF(p)
        \/ DeleteF(p)
        \/ DeleteIndexEntriesF(p)
        \/ SetReadOnlyF(p)
        \/ WritePersistenceGlobalF(p)
        \/ LeasePrecond(p)
        \/ Commit(p)
        \/ Done(p)

SpecTransact == Init /\ [][NextTransact]_vars

(* ------------------------------------------------------------------------ *)
(* Documents checked: one PostgresPersistence writing vectors of documents  *)
(* that carry their own ids, some of them too long or with a wrong id       *)
(* ------------------------------------------------------------------------ *)

\* the entries a writer may pass: tombstones, and documents whose own id is
\* or is not the id of the entry
CheckedEntries ==
    [ ts : { 1 }, table_id : { 1 }, id : 1..MaxId,
      value : { None } \cup { Some([ table_id |-> 1, id |-> i, body |-> "A" ]) : i \in 1..MaxId },
      prev_ts : { None } ]

NextChecked ==
    \E p \in { 1 } :
        \/ InitSql(p)
        \/ CheckReadOnly(p)
        \/ CheckNewlyCreated(p)
        \/ AcquireClock(p)
        \/ AcquireExecute(p)
        \/ Write(p, SeqsUpTo(CheckedEntries, MAX_INSERT_SIZE + 1), { {} }, ConflictStrategy)
        \/ AdvisoryLeaseCheck(p)
        \/ WriteF(p)
        \/ LeasePrecond(p)
        \/ Commit(p)
        \/ Done(p)

SpecChecked == Init /\ [][NextChecked]_vars

(* ------------------------------------------------------------------------ *)
(* An index scanned to its end: the caller of index_scan keeps polling the  *)
(* stream and never drops it, with size hints below, inside and above the   *)
(* range of batch sizes                                                     *)
(* ------------------------------------------------------------------------ *)

\* the size hints of such a caller: 0 and 5001 are outside 1..5000
PolledSizeHints == { 0, 1, MaxSizeHint, 5001 }

\* the arguments of such a caller
PolledScanArgs ==
    [ index_id : {1}, read_timestamp : 1..MaxDocTs, interval : ScanIntervals,
      order : { "Asc", "Desc" }, size_hint : PolledSizeHints ]

\* the client's index_scan, no write being under way
ClientPolledScan ==
    /\ \A p \in Procs : pc[p] \notin { "tx", "locked", "returned" }
    /\ IndexScan(PolledScanArgs)

NextPolled ==
    \/ \E p \in { 1 } :
        \/ InitSql(p)
        \/ CheckReadOnly(p)
        \/ CheckNewlyCreated(p)
        \/ AcquireClock(p)
        \/ AcquireExecute(p)
        \/ ClientIndexWrite(p)
        \/ AdvisoryLeaseCheck(p)
        \/ WriteF(p)
        \/ LeasePrecond(p)
        \/ Commit(p)
        \/ Done(p)
    \/ ClientPolledScan
    \/ ScanPage
    \/ ScanValidate
    \/ ScanSendRow
    \/ ScanPageEnd
    \/ ScanSendBoundary
    \/ ScanPageReply
    \/ ScanReturn
    \/ ScanRecv
    \/ ScanEnd
    \/ ScanForget

\* a step of the spawned producer after its page query, or of the caller
\* polling the stream
PolledStep ==
    \/ ScanValidate
    \/ ScanSendRow
    \/ ScanPageEnd
    \/ ScanSendBoundary
    \/ ScanPageReply
    \/ ScanReturn
    \/ ScanRecv
    \/ ScanEnd

\* the spawned producer runs and the caller polls the stream: while one of
\* them can take a step, a step is taken.  ScanPage is enabled exactly while
\* scan_pc = "query" and leaves that place, so its weak fairness is that the
\* producer does not stay there for ever
SpecPolled ==
    /\ Init /\ [][NextPolled]_vars
    /\ WF_vars(PolledStep)
    /\ []<>(scan_pc # "query")

(* ------------------------------------------------------------------------ *)
(* A log that changes under a stream: writes and retention deletes commit   *)
(* while load_documents is between its pages                                *)
(* ------------------------------------------------------------------------ *)

\* the revisions and the (ts, id) pairs of the table that changes
ChangingEntries == { e \in LoadEntries : e.table_id = 1 }
ChangingPairs == { d \in DeletePairs : d.table_id = 1 }

\* the client's write() of one revision and its delete() of one pair, at any
\* time
ClientWriteBetween(p) ==
    Begin(p, { "write" }, { << e >> : e \in ChangingEntries }, { {} }, { "Overwrite" })
ClientDeleteBetween(p) ==
    Begin(p, { "delete" }, { << >> }, { {} }, { "Error" })

\* the client's load_documents over the whole log in pages of one or two, at
\* any time
ClientLoadBetween ==
    /\ LoadDocuments
    /\ load_args'.page_size >= 1
    /\ load_args'.range_min = 1 /\ load_args'.range_max = MaxDocTs + 1

NextBetween ==
    \/ \E p \in { 1 } :
        \/ InitSql(p)
        \/ CheckReadOnly(p)
        \/ CheckNewlyCreated(p)
        \/ AcquireClock(p)
        \/ AcquireExecute(p)
        \/ ClientWriteBetween(p)
        \/ ClientDeleteBetween(p)
        \/ AdvisoryLeaseCheck(p)
        \/ WriteF(p)
        \/ Delete(p, { << d >> : d \in ChangingPairs })
        \/ LeasePrecond(p)
        \/ Commit(p)
        \/ Done(p)
    \/ ClientLoadBetween
    \/ LoadPage
    \/ ValidateSnapshot
    \/ DropStream

SpecBetween == Init /\ [][NextBetween]_vars

(* ------------------------------------------------------------------------ *)
(* Imports and the lease: two instances are constructed on an empty         *)
(* database, the later one taking the lease of the earlier, and either is   *)
(* asked to import documents or index entries                               *)
(* ------------------------------------------------------------------------ *)

\* import_documents_batch into the empty documents table
ClientImportDocuments ==
    /\ documents = {}
    /\ ImportDocumentsBatch

\* import_indexes_batch into the empty indexes table
ClientImportIndexes ==
    /\ indexes = {}
    /\ ImportIndexesBatch

NextOutside ==
    \/ \E p \in Procs :
        \/ InitSql(p)
        \/ CheckReadOnly(p)
        \/ CheckNewlyCreated(p)
        \/ AcquireClock(p)
        \/ AcquireExecute(p)
    \/ ClientImportDocuments
    \/ ClientImportIndexes
    \/ ImportChunk
    \/ ImportEnd
    \/ ImportIndexChunk
    \/ ImportIndexEnd
    \/ ImportReturn

SpecOutside == Init /\ [][NextOutside]_vars

(* ------------------------------------------------------------------------ *)
(* Freshness and failing writes: two instances are constructed on an empty  *)
(* database and write vectors that are refused, that collide on a primary   *)
(* key, or that come after the lease was taken                              *)
(* ------------------------------------------------------------------------ *)

\* one revision with a document of its own id, and the same with a document
\* of another id
FreshEntries ==
    [ ts : { 1 }, table_id : { 1 }, id : { 1 },
      value : { Some([ table_id |-> 1, id |-> i, body |-> "A" ]) : i \in 1..2 },
      prev_ts : { None } ]

NextFresh ==
    \E p \in Procs :
        \/ InitSql(p)
        \/ CheckReadOnly(p)
        \/ CheckNewlyCreated(p)
        \/ AcquireClock(p)
        \/ AcquireExecute(p)
        \/ AcquireResume(p)
        \/ Write(p, SeqsUpTo(FreshEntries, MAX_INSERT_SIZE + 1), { {} }, { "Error" })
        \/ AdvisoryLeaseCheck(p)
        \/ WriteF(p)
        \/ LeasePrecond(p)
        \/ Commit(p)
        \/ Done(p)

SpecFresh == Init /\ [][NextFresh]_vars

(* ------------------------------------------------------------------------ *)
(* The buffer of the scan: a client writes index keys, short ones and long  *)
(* ones of two prefixes, deletes one of them, and scans the index in both   *)
(* orders with pages of every size                                          *)
(* ------------------------------------------------------------------------ *)

\* the index keys: a short key below the long ones, long keys of two prefixes,
\* one of them with two keys, and a short key above the long ones
BufferKeys == << << 1 >>, << 2, 1 >>, << 2, 1, 1 >>, << 2, 2 >>, << 3 >> >>

\* the document a key points to: table 1 and the position of the key
BufferDocId(key) == CHOOSE i \in DOMAIN BufferKeys : BufferKeys[i] = key

\* the DocumentLogEntry and the PersistenceIndexEntry of a key written or
\* deleted at ts
BufferDoc(key, ts, live) ==
    [ ts |-> ts, table_id |-> 1, id |-> BufferDocId(key),
      value |-> IF live THEN Some("A") ELSE None,
      prev_ts |-> IF ts > 1 THEN Some(ts - 1) ELSE None ]
BufferIndex(key, ts, live) ==
    [ index_id |-> 1, key |-> key, ts |-> ts,
      value |-> IF live THEN Some(<< 1, BufferDocId(key) >>) ELSE None ]

\* the client's write(): the first commit enters a set of keys at timestamp 1,
\* the second deletes one key at timestamp 2, no stream being open
ClientBufferWrite(p) ==
    /\ stream = "none"
    /\ \/ /\ indexes = {}
          /\ \E S \in SUBSET Range(BufferKeys) :
               /\ Cardinality(S) >= 3
               /\ Begin(p, { "write" }, { SetToSeq({ BufferDoc(k, 1, TRUE) : k \in S }) },
                        { { BufferIndex(k, 1, TRUE) : k \in S } }, { "Error" })
       \/ /\ indexes # {}
          /\ \A r \in indexes : r.ts < MaxDocTs
          /\ \E k \in Range(BufferKeys) :
               Begin(p, { "write" }, { << BufferDoc(k, MaxDocTs, FALSE) >> },
                     { { BufferIndex(k, MaxDocTs, FALSE) } }, { "Error" })

\* the arguments of the client's index_scan: the whole index or a part of it
BufferScanArgs ==
    [ index_id : {1}, read_timestamp : 1..MaxDocTs,
      interval : { [ start |-> << 1 >>, end |-> None ],
                   [ start |-> << 2, 1, 1 >>, end |-> Some(<< 3 >>) ] },
      order : { "Asc", "Desc" }, size_hint : 1..MaxSizeHint ]

\* the client's index_scan, no write being under way
ClientBufferScan ==
    /\ \A p \in Procs : pc[p] \notin { "tx", "locked", "returned" }
    /\ IndexScan(BufferScanArgs)

NextBuffer ==
    \/ \E p \in { 1 } :
        \/ InitSql(p)
        \/ CheckReadOnly(p)
        \/ CheckNewlyCreated(p)
        \/ AcquireClock(p)
        \/ AcquireExecute(p)
        \/ ClientBufferWrite(p)
        \/ AdvisoryLeaseCheck(p)
        \/ WriteF(p)
        \/ LeasePrecond(p)
        \/ Commit(p)
        \/ Done(p)
    \/ ClientBufferScan
    \/ ScanPage
    \/ ScanValidate
    \/ ScanSendRow
    \/ ScanPageEnd
    \/ ScanSendBoundary
    \/ ScanPageReply
    \/ ScanReturn
    \/ ScanRecv
    \/ ScanEnd
    \/ ScanForget

SpecBuffer == Init /\ [][NextBuffer]_vars

(* ------------------------------------------------------------------------ *)
(* Properties of the lease protocol                                         *)
(* ------------------------------------------------------------------------ *)

\* the four tables a transaction writes
tables == << documents, indexes, read_only, persistence_globals >>

\* the step is the return of the running transact call of p
Returns(p) == pc[p] \in { "tx", "locked" } /\ pc'[p] = "returned"

\* the step is the commit of the open transaction of p
Commits(p) == pc[p] = "locked" /\ result'[p] = "ok"

\* the leases row carries exactly the ts the Lease of p acquired
HoldsLease(p) == lease_ts[p] # 0 /\ \E r \in leases : r.id = 1 /\ r.ts = lease_ts[p]

\* C1: a transact commits only if, at its commit, the leases row's ts equals
\* the lease_ts of its Lease; a Lease that has been overtaken never commits,
\* and every change of a table is such a commit.
C1_CommitOnlyWithLease ==
    [][ /\ \A p \in Procs : Commits(p) => HoldsLease(p) /\ ~Overtaken(p)
        /\ tables' # tables => \E p \in Procs : Commits(p) /\ HoldsLease(p) ]_vars

\* C1 witness: one process has committed a change after another process, whose
\* lease it overtook, was refused with lease-lost.
C1_Witness ==
    \E p, q \in Procs :
        /\ p # q /\ lost_once[q] /\ Overtaken(q)
        /\ result[p] = "ok" /\ HoldsLease(p)
        /\ documents # {}

C3_OvertakenWritesNothing ==
    [][ \A p \in Procs :
          ( /\ Overtaken(p) /\ op[p] \in Ops
            /\ << pc[p], advisory_done[p], f_done[p] >> #
               << pc'[p], advisory_done'[p], f_done'[p] >> )
          => tables' = tables ]_vars

\* C3 witness: a call begun after the overtaking has staged rows in its
\* transaction.
C3_Witness ==
    \E p \in Procs :
        /\ overtaken_at_begin[p] /\ pc[p] = "tx" /\ f_done[p]
        /\ staged[p] # NoStaged

\* C4: once the schema has been initialised the leases table holds exactly the
\* row id = 1; its ts never decreases, re-running the schema initialisation
\* leaves it as it is, and an acquire changes it only to a greater value.
C4_LeaseRowMonotonic ==
    /\ []( (\E p \in Procs : pc[p] # "new") =>
              /\ Cardinality(leases) = 1
              /\ \A r \in leases : r.id = 1 )
    /\ [][ /\ \A r \in leases : \E n \in leases' : n.id = r.id /\ n.ts >= r.ts
           /\ \A p \in Procs :
                pc[p] = "new" /\ pc'[p] # "new" /\ leases # {} => leases' = leases
           /\ leases # {} /\ leases' # leases =>
                \E p \in Procs :
                    /\ pc[p] \in { "acq_exec", "acq_wait" } /\ pc'[p] = "ready"
                    /\ \A r \in leases : r.ts < lease_ts'[p]
                    /\ \A n \in leases' : n.ts = lease_ts'[p] ]_vars

\* C4 witness: the schema initialisation has been re-run after an acquire, and
\* a second acquire has raised the ts again.
C4_Witness ==
    \E p, q \in Procs :
        /\ p # q /\ lease_ts[p] # 0 /\ lease_ts[q] > lease_ts[p]
        /\ \E r \in leases : r.ts = lease_ts[q]

C6_ShareLockBlocksAcquire ==
    [][ (\E p \in Procs : pc[p] = "locked" /\ pc'[p] = "locked") =>
            leases' = leases ]_vars

\* C6 witness: an acquire whose ts is greater than the row's is waiting for a
\* transaction that holds the share lock.
C6_Witness ==
    \E p, q \in Procs :
        /\ pc[p] = "locked" /\ pc[q] = "acq_wait"
        /\ \A r \in leases : r.ts < acquire_ts[q]

ArgDocRows(p) == { document_params(args[p].documents[i]) : i \in DOMAIN args[p].documents }
ArgIdxRows(p) == { index_params(u) : u \in args[p].indexes }

\* the step is one of the running call of p
StepOf(p) ==
    \/ pc'[p] # pc[p]
    \/ f_done'[p] # f_done[p]
    \/ advisory_done'[p] # advisory_done[p]

\* a row of the running write() of p carries a primary key that is stored
Collides(p) ==
    \/ Keys("documents", ArgDocRows(p)) \cap Keys("documents", documents) # {}
    \/ Keys("indexes", ArgIdxRows(p)) \cap Keys("indexes", indexes) # {}

\* C8: while a write under ConflictStrategy::Error carries a document or an
\* index row whose primary key is stored, no step of it changes documents or
\* indexes, its inserts never complete, and the call does not return Ok: it
\* fails and both tables stay as they were before the call.
C8_ErrorWriteCollisionAtomic ==
    [][ \A p \in Procs :
          /\ pc[p] \in { "tx", "locked" } /\ op[p] = "write"
          /\ args[p].conflict_strategy = "Error"
          /\ Collides(p)
          /\ StepOf(p)
          => /\ documents' = documents
             /\ indexes' = indexes
             /\ ~f_done'[p]
             /\ pc'[p] # "locked"
             /\ result'[p] # "ok" ]_vars

\* a write() under Error of two documents, one of them stored already and the
\* other not, has returned its error, and the new one is not stored
C8_Witness ==
    \E p \in Procs :
        /\ pc[p] = "returned" /\ op[p] = "none" /\ result[p] = "error"
        /\ args[p].conflict_strategy = "Error"
        /\ Len(args[p].documents) = 2
        /\ DocKey(document_params(args[p].documents[1])) \notin Keys("documents", documents)
        /\ DocKey(document_params(args[p].documents[2])) \in Keys("documents", documents)
        /\ args[p].indexes # {}
        /\ Keys("indexes", ArgIdxRows(p)) \cap Keys("indexes", indexes) = {}

\* C9: the commit of a write under ConflictStrategy::Overwrite leaves, of every
\* stored document row whose (ts, table_id, id) the call carries, all columns
\* but json_value and deleted as they were (prev_ts among them), sets these two
\* to the new entry's, stores the entries whose key was not stored as given,
\* and changes no other row of documents and no index row the call does not
\* carry.
C9_OverwriteKeepsPrevTs ==
    [][ \A p \in Procs :
          Commits(p) /\ op[p] = "write" /\ args[p].conflict_strategy = "Overwrite" =>
              /\ \A r \in documents :
                    IF DocKey(r) \in Keys("documents", ArgDocRows(p))
                    THEN \E n \in ArgDocRows(p) :
                            /\ DocKey(n) = DocKey(r)
                            /\ [ r EXCEPT !.json_value = n.json_value,
                                          !.deleted = n.deleted ] \in documents'
                    ELSE r \in documents'
              /\ \A n \in ArgDocRows(p) :
                    DocKey(n) \notin Keys("documents", documents) => n \in documents'
              /\ Keys("documents", documents') =
                    Keys("documents", documents) \cup Keys("documents", ArgDocRows(p))
              /\ Cardinality(documents') = Cardinality(Keys("documents", documents'))
              /\ \A r \in indexes :
                    IdxKey(r) \notin Keys("indexes", ArgIdxRows(p)) => r \in indexes' ]_vars

\* a write() under Overwrite has returned Ok, and a row it overwrote carries
\* the entry's value with a prev_ts that is not the entry's, next to a row the
\* call did not carry
C9_Witness ==
    \E p \in Procs :
        /\ pc[p] = "returned" /\ result[p] = "ok"
        /\ args[p].conflict_strategy = "Overwrite"
        /\ \E n \in ArgDocRows(p), r \in documents :
              /\ DocKey(r) = DocKey(n)
              /\ r.json_value = n.json_value /\ r.deleted = n.deleted
              /\ r.prev_ts # n.prev_ts
        /\ \E r \in documents : DocKey(r) \notin Keys("documents", ArgDocRows(p))

(* ------------------------------------------------------------------------ *)
(* Properties of load_documents                                             *)
(* ------------------------------------------------------------------------ *)

\* the revisions of the log: the entries whose rows write() stored
Written == { e \in LoadEntries : document_params(e) \in documents }

\* those of them inside the half-open range of the stream
InRange ==
    { e \in Written : load_args.range_min <= e.ts /\ e.ts < load_args.range_max }

\* s is in strictly ascending (ts, table_id, id) order
Ascending(s) ==
    \A i, j \in DOMAIN s : i < j => RowLess(EntryKey(s[i]), EntryKey(s[j]))

\* what an ascending stream has yielded is, in ascending order and each once,
\* revisions of the log inside the range; at the end of the stream, all of them
AscYieldsOnlyWritten ==
    load_args.order = "Asc" =>
        /\ Ascending(yielded)
        /\ Range(yielded) \subseteq InRange
        /\ reader_pc = "done" => Range(yielded) = InRange

\* C10 as claimed: an ascending load_documents, whatever its page_size, yields
\* exactly the written revisions inside its range, each once and in ascending
\* (ts, table_id, id) order, unless the retention validation fails.
C10_AscLoadYieldsWritten ==
    /\ []AscYieldsOnlyWritten
    /\ (reader_pc = "query" /\ load_args.order = "Asc")
          ~> (reader_pc = "failed" \/ Range(yielded) = InRange)

\* C10 amended: an ascending load_documents with page_size >= 1 ends, and
\* unless the retention validation fails it has then yielded exactly the written
\* revisions inside its range, each once and in ascending (ts, table_id, id)
\* order; whatever a stream has yielded is such revisions in that order.
C10_AscLoadYieldsWrittenPaged ==
    /\ []AscYieldsOnlyWritten
    /\ (reader_pc = "query" /\ load_args.order = "Asc" /\ load_args.page_size >= 1)
          ~> (reader_pc = "failed" \/ (reader_pc = "done" /\ Range(yielded) = InRange))

\* an ascending stream over a range covering the whole log has ended after
\* several pages, having yielded three revisions of two tables, a tombstone and
\* a revision with a prev_ts among them
C10_Witness ==
    /\ reader_pc = "done" /\ load_args.order = "Asc"
    /\ load_args.page_size \in 1..2
    /\ Len(yielded) = 3
    /\ Range(yielded) = Written
    /\ \E i, j \in DOMAIN yielded : yielded[i].table_id # yielded[j].table_id
    /\ \E i \in DOMAIN yielded : yielded[i].value = None
    /\ \E i \in DOMAIN yielded : yielded[i].prev_ts # None

\* _load_documents run to its end with every retention validation passing:
\* the pages after the cursor `last`, concatenated (page_size >= 1)
RECURSIVE LoadPages(_, _, _)
LoadPages(rows, a, last) ==
    LET page == IF a.order = "Asc"
                THEN LOAD_DOCS_BY_TS_PAGE_ASC(rows, last, a.range_max, a.page_size)
                ELSE LOAD_DOCS_BY_TS_PAGE_DESC(rows, a.range_min, last, a.page_size)
        docs == [ i \in DOMAIN page |-> row_to_document(page[i]) ]
    IN IF Len(page) < a.page_size THEN docs
       ELSE docs \o LoadPages(rows, a, DocKey(page[Len(page)]))

\* the whole sequence of load_documents(range, order, page_size) over rows
LoadAll(rows, a) ==
    LoadPages(rows, a,
              IF a.order = "Asc"
              THEN << a.range_min - 1, AFTER_ALL_BYTES, AFTER_ALL_BYTES >>
              ELSE << a.range_max, BEFORE_ALL_BYTES, BEFORE_ALL_BYTES >>)

\* C11: over an unchanging log, for every range and every page_size >= 1, the
\* sequence load_documents yields in Desc order is exactly the reverse of the
\* sequence it yields in Asc order, whatever page size the Asc stream used.
C11_DescIsReverseOfAsc ==
    (reader_pc = "done" /\ load_args.page_size >= 1) =>
        /\ yielded = LoadAll(documents, load_args)
        /\ \A n \in 1..MaxPageSize :
             LET asc  == LoadAll(documents, [ load_args EXCEPT !.order = "Asc",
                                                               !.page_size = n ])
                 desc == LoadAll(documents, [ load_args EXCEPT !.order = "Desc",
                                                               !.page_size = n ])
             IN /\ desc = Reverse(asc)
                /\ yielded = IF load_args.order = "Asc" THEN asc ELSE desc

\* a descending stream over a range covering the whole log has ended after
\* several pages, having yielded three revisions at two timestamps
C11_Witness ==
    /\ reader_pc = "done" /\ load_args.order = "Desc"
    /\ load_args.page_size \in 1..2
    /\ Len(yielded) = 3
    /\ Range(yielded) = Written
    /\ \E i, j \in DOMAIN yielded : yielded[i].ts # yielded[j].ts
    /\ yielded # LoadAll(documents, [ load_args EXCEPT !.order = "Asc" ])

(* ------------------------------------------------------------------------ *)
(* Properties of index_scan                                                 *)
(* ------------------------------------------------------------------------ *)

\* the rows of indexes that are versions of `key` in the scanned index at or
\* before the read timestamp, and the latest of them
Versions(key) ==
    { r \in indexes : /\ r.index_id = scan_args.index_id
                      /\ r.key_prefix = SplitKey(key).prefix
                      /\ r.key_suffix = SplitKey(key).suffix
                      /\ r.ts <= scan_args.read_timestamp }
LatestVersion(key) == CHOOSE r \in Versions(key) : \A q \in Versions(key) : q.ts <= r.ts

\* the key has a version at or before the read timestamp and the latest one is
\* not a tombstone
LiveAt(key) == Versions(key) # {} /\ ~LatestVersion(key).deleted

\* the keys the stream has yielded
EmittedKeys == { emitted[i].key : i \in DOMAIN emitted }

\* C12: index_scan at read_timestamp T returns for each index key the version
\* with the greatest ts <= T: what it yields for a key carries the ts of the
\* key's latest version at T, whatever later versions exist, and a stream that
\* ends has yielded every key of the interval that has a live latest version at
\* T and no key that has no version at T.
C12_LatestVersionAtReadTimestamp ==
    /\ \A i \in DOMAIN emitted :
         /\ Versions(emitted[i].key) # {}
         /\ emitted[i].ts = LatestVersion(emitted[i].key).ts
    /\ stream = "ok" =>
         \A k \in Range(ScanKeys) :
            (LiveAt(k) /\ contains(scan_args.interval, k)) => k \in EmittedKeys

\* a scan at timestamp 1 has ended having yielded, at its version of timestamp
\* 1, a key that also has a live version at timestamp 2
C12_Witness ==
    /\ stream = "ok"
    /\ scan_args.read_timestamp = 1
    /\ Len(emitted) >= 2
    /\ \E i \in DOMAIN emitted :
         /\ emitted[i].ts = 1
         /\ \E r \in indexes : /\ r.key_sha256 = Sha256(emitted[i].key)
                               /\ r.ts = 2 /\ ~r.deleted

\* C13: a key whose latest index row with ts <= read_timestamp is a tombstone is
\* not yielded, and a scan at a read timestamp before the tombstone's ts still
\* yields the key at its earlier live version.
C13_TombstoneHidesKey ==
    /\ \A i \in DOMAIN emitted : ~LatestVersion(emitted[i].key).deleted
    /\ \A k \in Range(ScanKeys) :
         (Versions(k) # {} /\ LatestVersion(k).deleted) => k \notin EmittedKeys
    /\ stream = "ok" =>
         \A k \in Range(ScanKeys) :
            ( /\ \E r \in indexes : /\ r.key_sha256 = Sha256(k) /\ r.deleted
                                    /\ r.ts > scan_args.read_timestamp
              /\ LiveAt(k)
              /\ contains(scan_args.interval, k) )
            => \E i \in DOMAIN emitted :
                  emitted[i].key = k /\ emitted[i].ts = LatestVersion(k).ts

\* a scan at timestamp 2 over an interval holding a key that is live at
\* timestamp 1 and deleted at timestamp 2 has ended having yielded the other keys
\* and not that one
C13_Witness ==
    /\ stream = "ok"
    /\ scan_args.read_timestamp = 2
    /\ emitted # << >>
    /\ \E k \in Range(ScanKeys) :
         /\ contains(scan_args.interval, k)
         /\ \E r \in indexes : r.key_sha256 = Sha256(k) /\ r.ts = 1 /\ ~r.deleted
         /\ \E r \in indexes : r.key_sha256 = Sha256(k) /\ r.ts = 2 /\ r.deleted
         /\ k \notin EmittedKeys

\* the sequence of keys runs strictly upwards (Asc) or downwards (Desc) in the
\* order of the full keys
Monotonic(s, order) ==
    \A i, j \in DOMAIN s :
        i < j => IF order = "Asc" THEN BytesLess(s[i].key, s[j].key)
                                  ELSE BytesLess(s[j].key, s[i].key)

\* C14: whatever index_scan has yielded is strictly monotonic in full-key order
\* in the requested direction, every yielded key satisfies interval.contains,
\* and nothing yielded is a tombstone: neither the index version nor the
\* document it comes with is deleted.
C14_OrderedInIntervalLive ==
    /\ Monotonic(emitted, scan_args.order)
    /\ \A i \in DOMAIN emitted :
         /\ contains(scan_args.interval, emitted[i].key)
         /\ \E r \in indexes : /\ r.key_sha256 = Sha256(emitted[i].key)
                               /\ r.ts = emitted[i].ts /\ ~r.deleted
         /\ \E d \in documents : /\ d.id = ScanDocId(emitted[i].key)
                                 /\ d.ts = emitted[i].ts /\ ~d.deleted

\* a descending scan over an interval that ends inside a group of long keys has
\* ended: it has yielded keys of the group and the short key below it, and left
\* out a live key of the group that lies outside the interval
C14_Witness ==
    /\ stream = "ok"
    /\ scan_args.order = "Desc"
    /\ scan_args.interval.end = Some(<< 2, 1, 2 >>)
    /\ Len(emitted) >= 3
    /\ << 1 >> \in EmittedKeys
    /\ LiveAt(<< 2, 1, 2 >>)

\* the key is long enough to be split and shares its prefix with other keys
LongKey(key) == Len(key) >= MAX_INDEX_KEY_PREFIX_LEN

\* C15: keys of at least MAX_INDEX_KEY_PREFIX_LEN bytes that share their first
\* MAX_INDEX_KEY_PREFIX_LEN bytes are yielded in full-key order, not in the
\* order of their digests, in both directions, also when the rows that share
\* the prefix arrive in several SQL pages; a stream that ends has yielded all
\* the live ones of the interval.
C15_LongKeysInKeyOrder ==
    /\ \A i, j \in DOMAIN emitted :
         ( /\ i < j
           /\ LongKey(emitted[i].key) /\ LongKey(emitted[j].key)
           /\ SplitKey(emitted[i].key).prefix = SplitKey(emitted[j].key).prefix )
         => IF scan_args.order = "Asc"
            THEN BytesLess(emitted[i].key, emitted[j].key)
            ELSE BytesLess(emitted[j].key, emitted[i].key)
    /\ stream = "ok" =>
         \A k \in Range(ScanKeys) :
            (LongKey(k) /\ LiveAt(k) /\ contains(scan_args.interval, k))
               => k \in EmittedKeys

\* a scan with pages of one row has ended after four page queries or more,
\* having yielded three long keys of one prefix whose digests are ordered
\* otherwise than the keys
C15_Witness ==
    /\ stream = "ok"
    /\ batch_size(scan_args.size_hint) = 1
    /\ sql_statements >= 4
    /\ \E i, j, k \in DOMAIN emitted :
         /\ i < j /\ j < k
         /\ LongKey(emitted[i].key)
         /\ SplitKey(emitted[i].key).prefix = SplitKey(emitted[j].key).prefix
         /\ SplitKey(emitted[j].key).prefix = SplitKey(emitted[k].key).prefix
         /\ \/ BytesLess(Sha256(emitted[j].key), Sha256(emitted[i].key))
            \/ BytesLess(Sha256(emitted[k].key), Sha256(emitted[j].key))

\* the rows of the page the producer would query next
NextPage ==
    INDEX_QUERIES(indexes, documents, scan_args.index_id, scan_args.read_timestamp,
                  lower, upper, scan_args.order, batch_size(scan_args.size_hint))

\* what a scan of the snapshot at the read timestamp yields: for every key of
\* the interval whose latest version in the snapshot is live, that version with
\* its document, in the order of the scan
SnapshotScan ==
    Apply(scan_args.order,
          SortByKey({ [ key |-> k, ts |-> d.ts, value |-> d.json_value[2],
                        prev_ts |-> d.prev_ts ] :
                      << k, d >> \in { x \in Range(ScanKeys) \X documents :
                            /\ LiveAt(x[1])
                            /\ contains(scan_args.interval, x[1])
                            /\ x[2].ts = LatestVersion(x[1]).ts
                            /\ x[2].id = ScanDocId(x[1])
                            /\ ~x[2].deleted } }))

\* the rows of the next page, were the tables to hold only the rows of the
\* snapshot: those with ts at or before the read timestamp
NextPageOfSnapshot ==
    INDEX_QUERIES({ r \in indexes : r.ts <= scan_args.read_timestamp },
                  { d \in documents : d.ts <= scan_args.read_timestamp },
                  scan_args.index_id, scan_args.read_timestamp,
                  lower, upper, scan_args.order, batch_size(scan_args.size_hint))

\* C16: index_scan at read_timestamp T is snapshot-consistent: documents and
\* index entries with ts > T, committed before the stream or between its SQL
\* pages, change no page (the rows of every page are those the snapshot at T
\* alone gives), and the stream yields exactly the sequence of (key, document)
\* pairs of the snapshot at T.
C16_SnapshotConsistent ==
    /\ stream = "open" => NextPage = NextPageOfSnapshot
    /\ stream = "ok" => emitted = SnapshotScan

\* between the first page and the second of a scan at timestamp 1 a write is
\* about to commit a version at timestamp 2 of a key that is live in the
\* snapshot, lies in the interval and has not been yielded yet
C16_Witness ==
    /\ stream = "open"
    /\ scan_pc = "wait"
    /\ sql_statements = 1
    /\ emitted # << >>
    /\ \E p \in Procs :
         /\ pc[p] = "locked"
         /\ \E r \in staged[p]["indexes"].add :
              /\ r.ts > scan_args.read_timestamp
              /\ \E k \in Range(ScanKeys) :
                   /\ r.key_sha256 = Sha256(k)
                   /\ LiveAt(k)
                   /\ contains(scan_args.interval, k)
                   /\ k \notin EmittedKeys

(* ------------------------------------------------------------------------ *)
(* Properties of the retention validation and of the paging of index_scan   *)
(* ------------------------------------------------------------------------ *)

\* C17: in load_documents and in index_scan no row of a fetched page is yielded
\* before the retention validation that follows the fetch of that page has
\* succeeded: load_documents yields rows only in the step of a successful
\* validation, and they are the page just fetched; the producer of index_scan
\* hands rows to the channel only after the validation of the page that
\* fetched them, and the consumer yields only rows handed to it. If a
\* validation fails, nothing more is yielded and the stream ends with the
\* retention error.
C17_ValidatedBeforeYield ==
    /\ [][ Len(yielded') > Len(yielded)
             => (reader_pc = "validate" /\ reader_pc' # "failed"
                 /\ yielded' = yielded \o batch) ]_vars
    /\ [][ reader_pc = "failed" => Len(yielded') <= Len(yielded) ]_vars
    /\ [][ Len(chan') > Len(chan) /\ chan'[Len(chan')][1] = "Row"
             => (scan_pc \in { "send", "flush" } /\ scan_pc' = scan_pc) ]_vars
    /\ [][ (scan_pc' = "send" /\ scan_pc # "send") => scan_pc = "validate" ]_vars
    /\ [][ (scan_pc' = "flush" /\ scan_pc # "flush") => scan_pc = "send" ]_vars
    /\ [][ Len(emitted') > Len(emitted)
             => (chan # << >> /\ Head(chan)[1] = "Row"
                 /\ emitted'[Len(emitted')].key = Head(chan)[2].key) ]_vars
    /\ [][ (scan_pc' = "retention" /\ scan_pc # "retention")
             => (scan_pc = "validate" /\ chan = << >>) ]_vars
    /\ [][ scan_pc = "retention"
             => /\ Len(emitted') <= Len(emitted)
                /\ stream = "open" => stream' \in { "open", "retention", "dropped" } ]_vars

\* an index_scan has ended with the retention error of the validation of a
\* later page, after the rows of its first page were yielded
C17_Witness ==
    /\ stream = "retention"
    /\ scan_pc = "retention"
    /\ sql_statements >= 2
    /\ emitted # << >>

\* C18: the producer of index_scan issues the SQL query of page n+1 only after
\* the consumer has received every row forwarded for page n, has received the
\* PageBoundary sentinel and has replied to it: the producer leaves its wait
\* for a page query only on a reply, the consumer replies only on receiving the
\* sentinel, which is then the last message of the channel, and a later page
\* query finds the channel empty. A caller that reads no further than the rows
\* of the first page therefore causes no second page query.
C18_NextPageAfterReply ==
    /\ [][ (scan_pc' = "query" /\ scan_pc \notin { "query", "idle" })
             => (scan_pc = "wait" /\ page_rx = "replied") ]_vars
    /\ [][ (page_rx' = "replied" /\ page_rx # "replied")
             => (stream = "open" /\ page_rx = "pending"
                 /\ chan = << << "PageBoundary" >> >>) ]_vars
    /\ [][ sql_statements' > sql_statements
             => (scan_pc = "query" /\ (sql_statements >= 1 => chan = << >>)) ]_vars
    /\ [][ (scan_pc = "wait" /\ page_rx = "pending")
             => sql_statements' <= sql_statements ]_vars

\* the consumer having yielded the rows of the first page and replied to the
\* sentinel, the second page query has been issued
C18_Witness ==
    /\ stream = "open"
    /\ sql_statements = 2
    /\ scan_pc = "validate"
    /\ Len(emitted) >= batch_size(scan_args.size_hint)

\* C19 as claimed: dropping the stream of index_scan cancels the producer:
\* after the drop no further SQL page query is issued, and a producer that is
\* sending the PageBoundary sentinel or waiting for its reply ends as a clean
\* termination rather than with an error.
C19_DropCancelsProducer ==
    /\ [][ stream = "dropped" => sql_statements' <= sql_statements ]_vars
    /\ [][ (stream = "dropped" /\ scan_pc \in { "boundary", "wait" } /\ ProducerEnded')
             => scan_pc' \in { "ok", "aborted" } ]_vars

\* C19 amended: dropping the stream of index_scan ends the producer, which is
\* aborted or runs on to its next channel operation. After the drop no reply
\* is given, so the producer starts a page query only if it was about to (the
\* first page, or the page after a reply given before the drop) and passes no
\* further page boundary; a producer waiting for the reply to its sentinel ends
\* with Ok or is aborted, a producer sending the sentinel or a row is aborted or
\* ends with the send error of the closed channel, and no error of the
\* producer reaches the caller.
C19_DropEndsProducer ==
    /\ [][ stream = "dropped" => (page_rx' = "replied" => page_rx = "replied") ]_vars
    /\ [][ (stream = "dropped" /\ scan_pc' = "query" /\ scan_pc # "query")
             => (scan_pc = "wait" /\ page_rx = "replied") ]_vars
    /\ [][ (stream = "dropped" /\ sql_statements' > sql_statements)
             => (scan_pc = "query" /\ scan_pc' \in { "validate", "dangling" }) ]_vars
    /\ [][ (stream = "dropped" /\ ~ProducerEnded /\ ProducerEnded')
             => scan_pc' \in
                  CASE scan_pc = "wait" -> { "ok", "aborted" }
                    [] scan_pc = "boundary" -> { "boundary_send_err", "aborted" }
                    [] scan_pc = "send" -> { "row_send_err", "aborted" }
                    [] scan_pc = "flush" -> { "row_send_err", "ok", "aborted" }
                    [] scan_pc = "validate" -> { "retention", "aborted" }
                    [] scan_pc = "query" -> { "dangling", "aborted" } ]_vars
    /\ [][ stream = "dropped" => stream' \in { "dropped", "none" } ]_vars
    /\ [](stream = "dropped" => chan = << >>)

\* the stream was dropped while its producer was about to send the sentinel of
\* its first page, and the producer has ended with the send error
C19_Witness ==
    /\ stream = "dropped"
    /\ scan_pc = "boundary_send_err"
    /\ sql_statements = 1

(* ------------------------------------------------------------------------ *)
(* Properties of previous_revisions                                         *)
(* ------------------------------------------------------------------------ *)

\* the revisions of the log of the document of q with a ts strictly below q.ts
Below(q) ==
    { e \in Written : e.table_id = q.table_id /\ e.id = q.id /\ e.ts < q.ts }

\* the entries of the result under the key (id, ts) of q
EntriesOf(q) ==
    { x.entry : x \in { y \in prev_result :
                          y.id = << q.table_id, q.id >> /\ y.ts = q.ts } }

\* C20: previous_revisions maps each (id, ts) it is asked about to the revision
\* of id with the greatest ts strictly less than ts, a tombstone counting as a
\* revision, and has no entry for a pair without such a revision, nor for a
\* pair it was not asked about.
C20_PreviousRevision ==
    prev_pc = "ok" =>
        /\ \A q \in prev_ids :
             IF Below(q) = {} THEN EntriesOf(q) = {}
             ELSE EntriesOf(q) =
                    { CHOOSE e \in Below(q) : \A o \in Below(q) : o.ts <= e.ts }
        /\ \A q \in PrevIds \ prev_ids : EntriesOf(q) = {}

\* previous_revisions has returned for a set of pairs that fills a chunk: a
\* document with revisions at timestamps 1 and 2 is mapped at timestamp 3 to the
\* second and at timestamp 2 to the first, has no entry at timestamp 1, and some
\* entry is a tombstone
C20_Witness ==
    /\ prev_pc = "ok"
    /\ Cardinality(prev_ids) >= CHUNK_SIZE
    /\ \E q1, q2, q3 \in prev_ids :
         /\ q1.table_id = q2.table_id /\ q1.id = q2.id
         /\ q2.table_id = q3.table_id /\ q2.id = q3.id
         /\ q1.ts = 1 /\ q2.ts = 2 /\ q3.ts = 3
         /\ EntriesOf(q1) = {}
         /\ \E e \in EntriesOf(q2) : e.ts = 1
         /\ \E e \in EntriesOf(q3) : e.ts = 2
    /\ \E x \in prev_result : x.entry.value = None

(* ------------------------------------------------------------------------ *)
(* Properties of previous_revisions_of_documents                            *)
(* ------------------------------------------------------------------------ *)

\* the entries of the result under the key (id, ts, prev_ts) of q
ExactEntriesOf(q) ==
    { x.entry : x \in { y \in exact_result :
                          /\ y.id = << q.table_id, q.id >>
                          /\ y.ts = q.ts
                          /\ y.prev_ts = q.prev_ts } }

\* C21: previous_revisions_of_documents maps each request (id, ts, prev_ts) to
\* the revision of id whose ts is exactly prev_ts, under the key
\* (id, ts, prev_ts) of the request, and has no entry for a request without a
\* revision at exactly prev_ts, nor under any key that was not requested.
C21_ExactRevision ==
    exact_pc = "ok" =>
        /\ \A q \in exact_ids :
             ExactEntriesOf(q) =
                { e \in Written :
                    e.table_id = q.table_id /\ e.id = q.id /\ e.ts = q.prev_ts }
        /\ \A x \in exact_result :
             \E q \in exact_ids :
                x.id = << q.table_id, q.id >> /\ x.ts = q.ts /\ x.prev_ts = q.prev_ts

\* previous_revisions_of_documents has returned for a set of requests that
\* fills a chunk: one request is answered with the revision at its prev_ts,
\* and another, for a document that has an older revision but none at its
\* prev_ts, has no entry
C21_Witness ==
    /\ exact_pc = "ok"
    /\ Cardinality(exact_ids) >= CHUNK_SIZE
    /\ \E q \in exact_ids : \E e \in ExactEntriesOf(q) : e.ts = q.prev_ts
    /\ \E q \in exact_ids :
         /\ ExactEntriesOf(q) = {}
         /\ \E e \in Written :
              e.table_id = q.table_id /\ e.id = q.id /\ e.ts < q.prev_ts

(* ------------------------------------------------------------------------ *)
(* Properties of construction                                               *)
(* ------------------------------------------------------------------------ *)

\* with_pool of q is under way
Constructing(q) ==
    pc[q] \in { "new", "init_done", "ro_checked", "acquire", "acq_exec", "acq_wait" }

\* q takes a step of with_pool while another instance is already constructed
SecondConstructionStep(q) ==
    /\ Constructing(q)
    /\ pc'[q] # pc[q]
    /\ \E p \in Procs \ { q } : lease_ts[p] # 0

\* C22 as claimed: an instance constructed after another one always sees
\* is_fresh() = false.
C22_SecondNeverFresh ==
    [][ \A q \in Procs :
          (SecondConstructionStep(q) /\ pc[q] = "ro_checked") => ~newly_created'[q] ]_vars

\* C22: constructing the backend a second time against the same database
\* changes no row of documents, indexes, read_only or persistence_globals and
\* keeps the one row of leases, whose ts only its acquire raises; it succeeds
\* unless the read-only row is present (and then it is refused) or its clock
\* reading is not above the ts of the leases row; and the second instance sees
\* is_fresh() = false exactly when documents holds a row at its construction.
C22_SecondConstructionSafe ==
    [][ \A q \in Procs :
          SecondConstructionStep(q) =>
             /\ UNCHANGED << documents, indexes, read_only, persistence_globals >>
             /\ { r.id : r \in leases' } = { r.id : r \in leases }
             /\ \A r \in leases : \E n \in leases' : n.id = r.id /\ n.ts >= r.ts
             /\ pc[q] \notin { "acq_exec", "acq_wait" } => leases' = leases
             /\ pc'[q] = "refused" => read_only # {}
             /\ pc'[q] = "acq_failed" =>
                    \A r \in leases : r.id = 1 => r.ts >= acquire_ts[q]
             /\ pc[q] = "ro_checked" => newly_created'[q] = (documents = {}) ]_vars

\* two instances are constructed, the second after the first and before any
\* call on it: nothing was written in between and it sees is_fresh() = true
C22_Witness ==
    \E p, q \in Procs :
        /\ pc[q] = "ready" /\ result[q] = "none"
        /\ lease_ts[p] # 0 /\ lease_ts[q] > lease_ts[p]
        /\ leases = { [ id |-> 1, ts |-> lease_ts[q] ] }
        /\ documents = {}
        /\ newly_created[q]

\* C23: when the read-only row is present at the read-only check of a
\* construction with allow_read_only = false, the construction fails with
\* ConnectError::ReadOnly there and then: the leases table and every Lease are
\* as they were, and the instance never goes on to acquire the lease.  With
\* allow_read_only = true, or without the row, the construction goes on.
C23_ReadOnlyRefusesBeforeLease ==
    [][ \A p \in Procs :
          /\ (pc[p] = "init_done" /\ pc'[p] # pc[p]) =>
                IF read_only # {} /\ ~allow_read_only[p]
                THEN /\ pc'[p] = "refused"
                     /\ lease_ts[p] = 0
                     /\ UNCHANGED << leases, lease_ts >>
                ELSE pc'[p] = "ro_checked"
          /\ pc[p] = "refused" => pc'[p] = "refused" /\ lease_ts'[p] = 0 ]_vars

\* a construction has been refused as read-only while another instance holds
\* the lease, which it still holds
C23_Witness ==
    \E p, q \in Procs :
        /\ pc[q] = "refused"
        /\ read_only # {}
        /\ lease_ts[q] = 0
        /\ lease_ts[p] # 0
        /\ leases = { [ id |-> 1, ts |-> lease_ts[p] ] }

(* ------------------------------------------------------------------------ *)
(* Properties of import_documents_batch                                     *)
(* ------------------------------------------------------------------------ *)

\* the rows of a stream of chunks, in order
RECURSIVE Flatten(_)
Flatten(chunks) ==
    IF chunks = << >> THEN << >> ELSE Head(chunks) \o Flatten(Tail(chunks))

\* no two rows of the stream carry the same (ts, table_id, id)
DistinctRows(chunks) ==
    \A i, j \in DOMAIN Flatten(chunks) :
        i < j => EntryKey(Flatten(chunks)[i]) # EntryKey(Flatten(chunks)[j])

\* C24: import_documents_batch of a stream of chunks whose rows have distinct
\* (ts, table_id, id), into an empty documents table, returns Ok having written
\* every row of every chunk exactly once with the content it was given: N rows
\* in are N revisions read back.  A COPY is finished before the end of the
\* stream only after a whole chunk that brings its count from below
\* ROWS_PER_COPY_BATCH to it or beyond, and a stream ending exactly there is
\* closed by an empty COPY.
C24_ImportWritesEveryRowOnce ==
    /\ [] ( import_pc = "ok" =>
              /\ { row_to_document(r) : r \in documents } = Range(Flatten(import_stream))
              /\ \A r \in documents : Decodes(r)
              /\ Cardinality(documents) = RowsOf(import_stream)
              /\ copies[Len(copies)] < ROWS_PER_COPY_BATCH
              /\ \A i \in 1..(Len(copies) - 1) : copies[i] >= ROWS_PER_COPY_BATCH )
    /\ [] ( import_pc = "failed" => ~DistinctRows(import_stream) )
    /\ [][ (import_pc = "copy" /\ import_next' = import_next + 1) =>
             IF batch_count + Len(import_stream[import_next]) >= ROWS_PER_COPY_BATCH
             THEN /\ batch_count < ROWS_PER_COPY_BATCH
                  /\ import_pc' = "copy" =>
                       /\ copies' = Append(copies, batch_count + Len(import_stream[import_next]))
                       /\ batch_count' = 0
             ELSE copies' = copies ]_vars

\* a stream of more rows than ROWS_PER_COPY_BATCH that ends exactly where a
\* COPY is full has been imported: a COPY of more rows than the limit, closed
\* by a chunk that straddles it, and an empty last one
C24_Witness ==
    /\ import_pc = "ok"
    /\ RowsOf(import_stream) = MaxImportRows
    /\ Cardinality(documents) = MaxImportRows
    /\ Len(copies) >= 3
    /\ copies[Len(copies)] = 0
    /\ \E i \in DOMAIN copies : copies[i] > ROWS_PER_COPY_BATCH

(* ------------------------------------------------------------------------ *)
(* Properties of delete                                                     *)
(* ------------------------------------------------------------------------ *)

\* row r is a revision of a listed (table_id, id) with a ts at or below the
\* ts listed with it
Listed(docs, r) ==
    \E i \in DOMAIN docs :
        r.table_id = docs[i].table_id /\ r.id = docs[i].id /\ r.ts <= docs[i].ts

\* the table and the count after deleting the pairs one at a time, each with
\* a single-pair statement
RECURSIVE OneAtATime(_, _, _)
OneAtATime(rows, docs, count) ==
    IF docs = << >> THEN [ rows |-> rows, count |-> count ]
    ELSE OneAtATime(rows \ DELETE_DOCUMENT(rows, Head(docs)).del, Tail(docs),
                    count + Cardinality(DELETE_DOCUMENT(rows, Head(docs)).del))

\* C25: delete, given a vector of (ts, id) pairs, removes exactly the revisions
\* of each listed (table_id, id) with a ts at or below the listed ts, and no
\* other row, and returns their number; its chunk statements and single-pair
\* statements together leave the table and the count that deleting the pairs
\* one at a time leaves, for every length of the vector.
C25_DeleteRemovesListed ==
    /\ [] ( \A p \in Procs :
              (delete_call[p] # None /\ pc[p] \in { "tx", "locked" }) =>
                 LET call == delete_call[p][1]
                     gone == { r \in documents : Listed(call.documents, r) }
                 IN /\ staged[p]["documents"].del = gone
                    /\ staged[p]["documents"].add = {}
                    /\ call.deleted_count = Cardinality(gone)
                    /\ OneAtATime(documents, call.documents, 0) =
                          [ rows |-> documents \ gone, count |-> call.deleted_count ] )
    /\ [][ \A p \in Procs :
             (delete_call[p] # None /\ pc[p] = "locked" /\ pc'[p] = "returned"
                 /\ result'[p] = "ok") =>
                /\ documents' = { r \in documents : ~Listed(delete_call[p][1].documents, r) }
                /\ Cardinality(documents) - Cardinality(documents') =
                      delete_call[p][1].deleted_count
                /\ UNCHANGED << indexes, leases, read_only, persistence_globals >> ]_vars

\* a delete with a vector longer than a chunk has returned Ok: it removed two
\* revisions of one document, more than one row in all, and left a revision
\* that was not listed
C25_Witness ==
    \E p \in Procs :
        /\ pc[p] = "returned" /\ result[p] = "ok" /\ delete_call[p] # None
        /\ Len(delete_call[p][1].documents) > CHUNK_SIZE
        /\ delete_call[p][1].deleted_count >= 2
        /\ documents # {}
        /\ \A r \in documents : ~Listed(delete_call[p][1].documents, r)

\* C26: is_fresh() is true after construction exactly when the documents
\* table had no row when the construction looked; after a successful write on
\* the instance is_fresh() is false, and once false it stays false for the
\* life of the instance.
C26_FreshUntilWrite ==
    [][ \A p \in Procs :
          /\ (pc[p] = "ro_checked" /\ pc'[p] # pc[p]) =>
                newly_created'[p] = (documents = {})
          /\ (pc[p] \in { "acquire", "acq_exec", "acq_wait" }) =>
                newly_created'[p] = newly_created[p]
          /\ (op[p] = "write" /\ pc'[p] = "returned" /\ result'[p] = "ok") =>
                ~newly_created'[p]
          /\ (lease_ts[p] # 0 /\ ~newly_created[p]) => ~newly_created'[p] ]_vars

\* an instance constructed on an empty documents table has made its first
\* write, which succeeded: the table holds what it wrote and is_fresh() is
\* false
C26_Witness ==
    \E p \in Procs :
        /\ pc[p] = "returned" /\ result[p] = "ok"
        /\ args[p].documents # << >>
        /\ documents = { document_params(args[p].documents[i]) :
                            i \in DOMAIN args[p].documents }
        /\ ~newly_created[p]
        /\ \A q \in Procs \ { p } : lease_ts[q] = 0

(* ------------------------------------------------------------------------ *)
(* Properties of the opening of a transaction                               *)
(* ------------------------------------------------------------------------ *)

\* C27: Lease.transact makes at most two attempts to open a transaction and at
\* most one reconnection.  It reconnects only after a first attempt that
\* failed and left the connection poisoned; when the connection is not
\* poisoned, or the attempt after the reconnection fails too, it returns the
\* error, and whenever it returns without a transaction the user function
\* and both lease checks have not run and nothing is changed.
C27_OneReconnection ==
    /\ [] ( \A p \in Procs :
              /\ retry[p].attempts <= 2
              /\ retry[p].reconnections <= 1
              /\ pc[p] \in { "tx", "locked" } => retry[p].attempts >= 1 )
    /\ [][ \A p \in Procs :
             pc[p] = "open" =>
                /\ retry[p].retried_err
                /\ retry'[p].reconnections > retry[p].reconnections =>
                      /\ retry[p].attempts = 1
                      /\ retry[p].poisoned
                /\ retry'[p].attempts > retry[p].attempts =>
                      retry'[p].reconnections > retry[p].reconnections
                /\ (~retry[p].poisoned \/ retry[p].attempts = 2) =>
                      /\ pc'[p] = "returned"
                      /\ retry'[p] = retry[p]
                /\ pc'[p] = "returned" =>
                      /\ result'[p] = "error"
                      /\ ~f_done[p] /\ ~advisory_done[p]
                      /\ staged[p] = NoStaged
                      /\ signals'[p] = 0
                      /\ UNCHANGED dbvars ]_vars

\* a call has opened its transaction at the second attempt, after one
\* reconnection, and its user function has run
C27_Witness ==
    \E p \in Procs :
        /\ pc[p] = "tx" /\ f_done[p]
        /\ retry[p].attempts = 2
        /\ retry[p].reconnections = 1
        /\ retry[p].reconnected

(* ------------------------------------------------------------------------ *)
(* Properties of the checks of write                                        *)
(* ------------------------------------------------------------------------ *)

\* some document of the vector carries an id that is not the id of its entry
WrongId(docs) ==
    \E i \in DOMAIN docs :
        /\ docs[i].value # None
        /\ docs[i].value[1].id # docs[i].id

\* C28: write fails when it is given more than MAX_INSERT_SIZE documents or a
\* document whose own (table_id, id) differs from that of its entry, and it
\* fails before any transaction is opened: no lease check is made and no row
\* of any table changes.  Any other vector goes on to a transaction.
C28_WriteChecksFirst ==
    /\ [][ \A p \in Procs :
             (pc[p] = "ready" /\ pc'[p] # "ready") =>
                IF Len(args'[p].documents) > MAX_INSERT_SIZE \/ WrongId(args'[p].documents)
                THEN /\ pc'[p] = "returned"
                     /\ result'[p] = "error"
                     /\ retry'[p].attempts = 0
                     /\ ~advisory_done'[p] /\ ~f_done'[p]
                     /\ staged'[p] = NoStaged
                     /\ UNCHANGED dbvars
                ELSE pc'[p] = "tx" /\ retry'[p].attempts = 1 ]_vars
    /\ [] ( \A p \in Procs :
              (pc[p] \in { "tx", "locked" } \/ (pc[p] = "returned" /\ result[p] = "ok")) =>
                 /\ Len(args[p].documents) <= MAX_INSERT_SIZE
                 /\ ~WrongId(args[p].documents) )

\* a write of a short vector with a document of the wrong id has been
\* refused, after an earlier write whose rows are still there
C28_Witness ==
    \E p \in Procs :
        /\ pc[p] = "returned" /\ result[p] = "error"
        /\ retry[p].attempts = 0
        /\ Len(args[p].documents) <= MAX_INSERT_SIZE
        /\ WrongId(args[p].documents)
        /\ documents # {}

(* ------------------------------------------------------------------------ *)
(* Properties of the statements of previous_revisions                       *)
(* ------------------------------------------------------------------------ *)

\* the statements of previous_revisions' last call that are of the kind k
StatementsOf(k) ==
    { i \in DOMAIN prev_statements : prev_statements[i].statement = k }

\* the places among the parameters of the statements where the request q is
PlacesOf(q) ==
    { ij \in (DOMAIN prev_statements) \X (1..CHUNK_SIZE) :
        /\ ij[2] <= Len(prev_statements[ij[1]].params)
        /\ prev_statements[ij[1]].params[ij[2]] = q }

\* what the result would hold for the request q asked on its own
AnsweredAlone(q) ==
    { [ id |-> << f.row.table_id, f.row.id >>, ts |-> f.query_ts,
        entry |-> row_to_document(f.row) ] : f \in PREV_REV(documents, q) }

\* C29: for n requests previous_revisions issues n \div CHUNK_SIZE chunk
\* statements of CHUNK_SIZE requests each and n % CHUNK_SIZE statements of one
\* request, every request being in one statement, and the result it builds is
\* the union of what each request gets on its own.
C29_ChunksAndSingles ==
    prev_pc # "idle" =>
        /\ Cardinality(StatementsOf("PREV_REV_CHUNK")) = Cardinality(prev_ids) \div CHUNK_SIZE
        /\ Cardinality(StatementsOf("PREV_REV")) = Cardinality(prev_ids) % CHUNK_SIZE
        /\ \A i \in StatementsOf("PREV_REV_CHUNK") : Len(prev_statements[i].params) = CHUNK_SIZE
        /\ \A i \in StatementsOf("PREV_REV") : Len(prev_statements[i].params) = 1
        /\ \A q \in prev_ids : Cardinality(PlacesOf(q)) = 1
        /\ prev_pc \in { "validate", "ok" } =>
              prev_result = UNION { AnsweredAlone(q) : q \in prev_ids }

\* previous_revisions has returned for ten requests, issued as one chunk
\* statement and two single statements, with a revision found by the chunk
\* statement and one found by a single statement
C29_Witness ==
    /\ prev_pc = "ok"
    /\ Cardinality(prev_ids) = CHUNK_SIZE + 2
    /\ Cardinality(StatementsOf("PREV_REV_CHUNK")) = 1
    /\ Cardinality(StatementsOf("PREV_REV")) = 2
    /\ \E q1, q2 \in prev_ids :
         /\ \E ij \in PlacesOf(q1) : prev_statements[ij[1]].statement = "PREV_REV_CHUNK"
         /\ \E ij \in PlacesOf(q2) : prev_statements[ij[1]].statement = "PREV_REV"
         /\ AnsweredAlone(q1) # {} /\ AnsweredAlone(q1) \subseteq prev_result
         /\ AnsweredAlone(q2) # {} /\ AnsweredAlone(q2) \subseteq prev_result

(* ------------------------------------------------------------------------ *)
(* Properties of index rows without a live document                         *)
(* ------------------------------------------------------------------------ *)

\* the rows of documents with the (ts, table_id, document_id) of the index row r
DocumentsOf(r) ==
    { d \in documents : /\ d.ts = r.ts
                        /\ r.table_id = Some(d.table_id)
                        /\ r.document_id = Some(d.id) }

\* the latest version of the key at the read timestamp is live and no row of
\* documents matches it
Dangling(key) == LiveAt(key) /\ DocumentsOf(LatestVersion(key)) = {}

\* the latest version of the key at the read timestamp is live and the
\* document that matches it has the value null
NullDocument(key) ==
    /\ LiveAt(key)
    /\ \E d \in DocumentsOf(LatestVersion(key)) : d.json_value = JsonNull

\* the keys of the interval of the scan
ScannedKeys == { k \in Range(ScanKeys) : contains(scan_args.interval, k) }

\* C30: a key whose latest index row at the read timestamp is live while no
\* document matches it, or while the document that matches it is null, is
\* never yielded by index_scan, and a stream whose interval holds such a key
\* does not end well: read to its end it ends with an error.  The stream ends
\* with the error of a dangling reference, or with that of a deleted document,
\* only where there is such a key.
C30_BrokenReferenceIsAnError ==
    stream # "none" =>
        /\ \A k \in Range(ScanKeys) : (Dangling(k) \/ NullDocument(k)) => k \notin EmittedKeys
        /\ stream = "ok" => \A k \in ScannedKeys : ~Dangling(k) /\ ~NullDocument(k)
        /\ stream = "dangling" => \E k \in Range(ScanKeys) : Dangling(k)
        /\ stream = "deleted_doc" => \E k \in Range(ScanKeys) : NullDocument(k)

\* a stream has yielded a key and then ended with the error of an index row
\* whose document is null, the key of that row being in its interval
C30_Witness ==
    /\ stream = "deleted_doc"
    /\ emitted # << >>
    /\ \E k \in ScannedKeys : NullDocument(k) /\ k \notin EmittedKeys

\* a stream has ended with the error of a dangling index reference
C30_DanglingReached == stream = "dangling" /\ \E k \in ScannedKeys : Dangling(k)

(* ------------------------------------------------------------------------ *)
(* Properties of an index scanned to its end                                *)
(* ------------------------------------------------------------------------ *)

\* the keys of the interval whose latest version at the read timestamp is live
LiveKeys == { k \in Range(ScanKeys) : LiveAt(k) /\ contains(scan_args.interval, k) }

\* C31: with any size hint, those outside 1..5000 included, an index_scan
\* whose caller keeps polling comes to its end; no page is longer than the
\* size hint clamped to 1..5000, and a stream that has ended without an error
\* has yielded every key of the interval that is live at the read timestamp,
\* each once.
C31_PolledScanEnds ==
    /\ [] ( stream # "none" =>
              /\ batch_size(scan_args.size_hint) \in 1..5000
              /\ scan_args.size_hint \in 1..5000 =>
                    batch_size(scan_args.size_hint) = scan_args.size_hint
              /\ scan_args.size_hint < 1 => batch_size(scan_args.size_hint) = 1
              /\ scan_args.size_hint > 5000 => batch_size(scan_args.size_hint) = 5000
              /\ batch_rows <= batch_size(scan_args.size_hint)
              /\ \A i, j \in DOMAIN emitted : emitted[i].key = emitted[j].key => i = j
              /\ stream = "ok" => EmittedKeys = LiveKeys )
    /\ (stream = "open") ~> (stream \notin { "none", "open" })

\* a scan with the size hint 0 has ended well after more than four pages, one
\* of them holding nothing but a tombstone, and the last one empty: it has
\* yielded the three keys that are live
C31_Witness ==
    /\ stream = "ok"
    /\ scan_args.size_hint = 0
    /\ sql_statements = 5
    /\ Len(emitted) = 3
    /\ \E k \in Range(ScanKeys) : Versions(k) # {} /\ LatestVersion(k).deleted

(* ------------------------------------------------------------------------ *)
(* Properties of the end of load_documents                                  *)
(* ------------------------------------------------------------------------ *)

\* the stream goes on after a page exactly when the page was full, and one
\* that has ended has yielded every revision of the range, each once
ShortPageEnds ==
    /\ [][ (reader_pc = "validate" /\ reader_pc' \in { "done", "query" }) =>
              (reader_pc' = "done" <=> Len(batch) < load_args.page_size) ]_vars
    /\ [] ( /\ \A i, j \in DOMAIN yielded : yielded[i] = yielded[j] => i = j
            /\ reader_pc = "done" => Range(yielded) = InRange )

\* C32 as claimed: with any page_size, load_documents in either order comes to
\* its end, after the first page shorter than page_size, having yielded every
\* revision of the range once.
C32_LoadEnds ==
    /\ ShortPageEnds
    /\ (reader_pc = "query") ~> (reader_pc \in { "done", "failed" })

\* C32 amended: with a page_size of 1 or more, load_documents in either order
\* comes to its end, with an error or after the first page shorter than
\* page_size, and a stream that ends without an error has yielded every
\* revision of the range once.
C32_LoadEndsPaged ==
    /\ ShortPageEnds
    /\ (reader_pc = "query" /\ load_args.page_size >= 1)
          ~> (reader_pc \in { "done", "failed" })

\* a stream of pages of two has ended after a full page and a short one,
\* having yielded the three revisions of its range
C32_Witness ==
    /\ reader_pc = "done"
    /\ load_args.page_size = 2
    /\ Len(yielded) = 3
    /\ Range(yielded) = InRange

(* ------------------------------------------------------------------------ *)
(* Properties of load_documents over a log that changes                     *)
(* ------------------------------------------------------------------------ *)

\* C33: whatever writes and deletes commit between the pages of
\* load_documents, what the stream has yielded runs strictly upwards (Asc) or
\* strictly downwards (Desc) in (ts, table_id, id), so that no revision is
\* yielded twice, and every page starts strictly beyond the cursor.
C33_CursorStable ==
    /\ \A i, j \in DOMAIN yielded :
         i < j => IF load_args.order = "Asc"
                  THEN RowLess(EntryKey(yielded[i]), EntryKey(yielded[j]))
                  ELSE RowLess(EntryKey(yielded[j]), EntryKey(yielded[i]))
    /\ \A i, j \in DOMAIN yielded : EntryKey(yielded[i]) = EntryKey(yielded[j]) => i = j
    /\ \A i \in DOMAIN batch, j \in DOMAIN yielded :
         IF load_args.order = "Asc"
         THEN RowLess(EntryKey(yielded[j]), EntryKey(batch[i]))
         ELSE RowLess(EntryKey(batch[i]), EntryKey(yielded[j]))

\* a stream of several pages has ended over a log that changed under it: a
\* revision it yielded has since been deleted, and a revision written behind
\* its cursor is in the log without having been yielded
C33_Witness ==
    /\ reader_pc = "done"
    /\ Len(yielded) >= 2
    /\ \E i \in DOMAIN yielded : document_params(yielded[i]) \notin documents
    /\ \E r \in documents : \A i \in DOMAIN yielded : EntryKey(yielded[i]) # DocKey(r)

(* ------------------------------------------------------------------------ *)
(* Properties of the buffered queries                                       *)
(* ------------------------------------------------------------------------ *)

\* the statements of the call under way, and those of them in progress: sent
\* on the connection and not yet read
CallStatements ==
    IF prev_pc = "pipeline" THEN prev_statements
    ELSE IF exact_pc = "pipeline" THEN exact_statements
    ELSE << >>
InFlight == pipe_started - pipe_taken

\* C34: during previous_revisions and previous_revisions_of_documents the
\* statements in progress on the connection are never more than
\* PIPELINE_QUERIES, however many statements the call has, and every one of
\* them is a statement of the call.
C34_PipelineBounded ==
    /\ InFlight \in 0..PIPELINE_QUERIES
    /\ pipe_started <= Len(CallStatements)

\* a call of previous_revisions_of_documents with more statements than
\* PIPELINE_QUERIES has PIPELINE_QUERIES of them in progress after it has read
\* one, with a statement still to start
C34_Witness ==
    /\ exact_pc = "pipeline"
    /\ Len(exact_statements) > PIPELINE_QUERIES + 1
    /\ InFlight = PIPELINE_QUERIES
    /\ pipe_taken >= 1
    /\ pipe_started < Len(exact_statements)

(* ------------------------------------------------------------------------ *)
(* Properties of the result maps                                            *)
(* ------------------------------------------------------------------------ *)

\* the keys of the requests of the two calls
PrevRequestKeys ==
    { [ id |-> << q.table_id, q.id >>, ts |-> q.ts ] : q \in prev_ids }
ExactRequestKeys ==
    { [ id |-> << q.table_id, q.id >>, ts |-> q.ts, prev_ts |-> q.prev_ts ] : q \in exact_ids }

\* C35: in previous_revisions and previous_revisions_of_documents every row
\* is entered under a key of its own, which is the key of a request: no call
\* ends with the error of a key already taken, and no two entries of a result
\* have one key.
C35_DistinctKeys ==
    /\ prev_pc # "duplicate"
    /\ exact_pc # "duplicate"
    /\ \A x, y \in prev_result : MapKey(x) = MapKey(y) => x = y
    /\ \A x, y \in exact_result : MapKey(x) = MapKey(y) => x = y
    /\ \A x \in prev_result : MapKey(x) \in PrevRequestKeys
    /\ \A x \in exact_result : MapKey(x) \in ExactRequestKeys

\* previous_revisions has returned a result in which one revision is the
\* entry of two keys, and another document has two revisions as entries
C35_Witness ==
    /\ prev_pc = "ok"
    /\ \E x, y \in prev_result : x # y /\ x.entry = y.entry
    /\ \E x, y \in prev_result : x.id = y.id /\ x.entry.ts # y.entry.ts

(* ------------------------------------------------------------------------ *)
(* Properties of the read_only table                                        *)
(* ------------------------------------------------------------------------ *)

\* C36: the read_only table never holds more than one row, and at the return
\* of a set_read_only(b) that succeeds its row is there exactly if b is true,
\* whether it was there before the call or not.
C36_ReadOnlySingleton ==
    /\ [] ( Cardinality(read_only) <= 1 )
    /\ [][ \A p \in Procs :
             ( /\ pc[p] # "returned" /\ pc'[p] = "returned"
               /\ result'[p] = "ok"
               /\ args[p].read_only # None )
                => (read_only' # {} <=> args[p].read_only[1]) ]_vars

\* set_read_only(false) has returned well and the row is gone, after a
\* set_read_only(true) of the other instance had returned well
C36_Witness ==
    \E p, q \in Procs :
        /\ pc[p] = "returned" /\ result[p] = "ok" /\ args[p].read_only = Some(FALSE)
        /\ pc[q] = "returned" /\ result[q] = "ok" /\ args[q].read_only = Some(TRUE)
        /\ read_only = {}

(* ------------------------------------------------------------------------ *)
(* Properties of the imports and the lease                                  *)
(* ------------------------------------------------------------------------ *)

\* the rows the open COPY holds once the chunk that next() returns, if there
\* is one, has been written to it
WrittenNext ==
    LET chunk == IF import_next > Len(import_stream) THEN << >>
                 ELSE IF import_pc = "copy" THEN import_stream[import_next]
                 ELSE SetToSeq(import_stream[import_next])
    IN copy_writer \o [ i \in DOMAIN chunk |->
                          IF import_pc = "copy" THEN document_params(chunk[i])
                          ELSE index_params(chunk[i]) ]

\* the table the import that is running copies into
ImportTable == IF import_pc = "copy" THEN "documents" ELSE "indexes"

\* the step is one of a running import
ImportStep ==
    /\ import_pc \in { "copy", "copy_indexes" }
    /\ << import_pc, import_next >>' # << import_pc, import_next >>

\* the step finishes a COPY
FinishesCopy ==
    /\ ImportStep
    /\ \/ import_next > Len(import_stream)
       \/ Len(WrittenNext) - Len(copy_writer) + batch_count >= ROWS_PER_COPY_BATCH

\* every row of the stream of the import is in the table
AllImported(tbl, rows) ==
    \A i \in DOMAIN import_stream :
        IF tbl = "documents"
        THEN \A j \in DOMAIN import_stream[i] :
                 document_params(import_stream[i][j]) \in rows
        ELSE \A u \in import_stream[i] : index_params(u) \in rows

\* C37: import_documents_batch and import_indexes_batch run outside the lease.
\* No step of theirs checks the lease, takes a lock on the leases row or
\* signals a lost lease; a COPY of theirs that is finished inserts its rows
\* unless a primary key is taken, and fails for no other reason, whether the
\* instance holds the lease or has lost it; and an import that returns Ok has
\* inserted every row of its stream.
C37_ImportsOutsideLease ==
    /\ [][ ImportStep =>
             UNCHANGED << leases, pc, op, advisory_done, staged, result, signals,
                          lost_once >> ]_vars
    /\ [][ FinishesCopy =>
             IF PlainInsert(ImportTable, Table(ImportTable), WrittenNext).ok
             THEN /\ import_pc' # "failed"
                  /\ IF import_pc = "copy"
                     THEN documents' = documents \cup Range(WrittenNext)
                     ELSE indexes' = indexes \cup Range(WrittenNext)
             ELSE import_pc' = "failed" /\ documents' = documents /\ indexes' = indexes
         ]_vars
    /\ [][ (ImportStep /\ import_pc' = "ok") =>
             AllImported(ImportTable, IF import_pc = "copy" THEN documents' ELSE indexes')
         ]_vars

\* an instance whose lease had been taken by the other before the call is
\* importing index entries and has inserted those of the COPY it has finished,
\* the last entry being written to the next COPY; the documents are imported
\* already
C37_Witness ==
    /\ import_pc = "copy_indexes"
    /\ overtaken_at_begin[import_by]
    /\ import_next > Len(import_stream)
    /\ copies = << 2 >>
    /\ Cardinality(indexes) = 2
    /\ Len(copy_writer) = 1
    /\ Cardinality(documents) = MaxImportRows

\* the same of import_documents_batch: called after the lease was lost, it has
\* inserted the rows of two COPYs
C37_DocumentsReached ==
    /\ import_pc = "copy"
    /\ overtaken_at_begin[import_by]
    /\ Len(copies) = 2
    /\ Cardinality(documents) >= 2 * ROWS_PER_COPY_BATCH

(* ------------------------------------------------------------------------ *)
(* Properties of the freshness flag under failing writes                    *)
(* ------------------------------------------------------------------------ *)

\* C38: write stores false in newly_created before its transaction runs.  A
\* write whose documents pass the checks of their number and ids leaves
\* is_fresh() false from the call on, however the transaction ends, also when
\* it fails on a primary key or on a lost lease and commits nothing; a write
\* refused by the checks leaves is_fresh() as it was.
C38_ClearedBeforeTransaction ==
    /\ [][ \A p \in Procs :
             (pc[p] = "ready" /\ pc'[p] # "ready") =>
                IF Validates(args'[p].documents)
                THEN ~newly_created'[p]
                ELSE newly_created'[p] = newly_created[p] ]_vars
    /\ [] ( \A p \in Procs :
              (pc[p] \in { "open", "tx", "locked" } \/
               (pc[p] = "returned" /\ Validates(args[p].documents))) =>
                 ~newly_created[p] )
    /\ [][ \A p \in Procs :
             (pc[p] \in { "tx", "locked" } /\ pc'[p] = "returned" /\ result'[p] # "ok") =>
                 UNCHANGED dbvars ]_vars

\* nothing was ever committed, both instances were constructed fresh: the
\* write of one has failed on a lost lease, the write of the other, of two
\* revisions with one primary key, on that key, and neither is fresh any more
C38_Witness ==
    \E p, q \in Procs :
        /\ documents = {}
        /\ pc[p] = "returned" /\ result[p] = "lease_lost"
        /\ Validates(args[p].documents) /\ ~newly_created[p]
        /\ pc[q] = "returned" /\ result[q] = "error"
        /\ Validates(args[q].documents) /\ Len(args[q].documents) = 2
        /\ ~newly_created[q]

\* a fresh instance whose write was refused for a document of the wrong id is
\* still fresh
C38_RefusedReached ==
    \E p \in Procs :
        /\ pc[p] = "returned" /\ result[p] = "error"
        /\ WrongId(args[p].documents)
        /\ Len(args[p].documents) <= MAX_INSERT_SIZE
        /\ newly_created[p]


(* ------------------------------------------------------------------------ *)
(* Properties of the read-only flag on an open instance                     *)
(* ------------------------------------------------------------------------ *)

\* C39: the read-only flag is consulted at construction only.  An instance is
\* refused nowhere but at the check of its construction, and a write, delete
\* or write_persistence_global of an instance that holds the lease, ending
\* while the read_only row is there, commits: it returns Ok with its changes
\* in the tables, or, being a write that must not overwrite, the error of a
\* primary key that is taken.
C39_ReadOnlyOnlyAtConstruction ==
    /\ [][ \A p \in Procs : pc'[p] = "refused" => pc[p] \in { "init_done", "refused" } ]_vars
    /\ [][ \A p \in Procs :
             ( /\ read_only # {}
               /\ HoldsLease(p)
               /\ pc[p] \in { "tx", "locked" } /\ pc'[p] = "returned"
               /\ op[p] \in { "write", "delete", "write_persistence_global" } )
             => \/ /\ result'[p] = "ok"
                   /\ documents' = Committed(documents, staged[p]["documents"])
                   /\ indexes' = Committed(indexes, staged[p]["indexes"])
                   /\ persistence_globals' =
                        Committed(persistence_globals, staged[p]["persistence_globals"])
                \/ /\ result'[p] = "error"
                   /\ op[p] = "write"
                   /\ args[p].conflict_strategy = "Error" ]_vars

\* the one instance there is has made the database read-only in an earlier
\* call, and its write after that has returned Ok with its rows in the table
C39_Witness ==
    \E p \in Procs :
        /\ \A q \in Procs \ { p } : lease_ts[q] = 0
        /\ read_only # {}
        /\ pc[p] = "returned" /\ result[p] = "ok"
        /\ args[p].documents # << >>
        /\ \A i \in DOMAIN args[p].documents :
             document_params(args[p].documents[i]) \in documents

\* the same of delete: it has returned Ok on the read-only database
C39_DeleteReached ==
    \E p \in Procs :
        /\ \A q \in Procs \ { p } : lease_ts[q] = 0
        /\ read_only # {}
        /\ pc[p] = "returned" /\ result[p] = "ok"
        /\ delete_call[p] # None

\* and of write_persistence_global: its row is about to be committed on the
\* read-only database
C39_GlobalReached ==
    \E p \in Procs :
        /\ \A q \in Procs \ { p } : lease_ts[q] = 0
        /\ read_only # {}
        /\ pc[p] = "locked" /\ op[p] = "write_persistence_global"
        /\ staged[p]["persistence_globals"].add # {}

(* ------------------------------------------------------------------------ *)
(* Properties of the buffer of the scan                                     *)
(* ------------------------------------------------------------------------ *)

\* the results of a buffer all have keys of MAX_INDEX_KEY_PREFIX_LEN bytes or
\* more, with the same first MAX_INDEX_KEY_PREFIX_LEN bytes
SamePrefix(buffer) ==
    \A i \in DOMAIN buffer :
        /\ Len(buffer[i].key) >= MAX_INDEX_KEY_PREFIX_LEN
        /\ SplitKey(buffer[i].key).prefix = SplitKey(buffer[1].key).prefix

\* the buffers the row loop holds, before the first row and after each row
RECURSIVE BuffersOf(_, _, _)
BuffersOf(a, rows, st) ==
    IF rows = << >> \/ st.error # "none" THEN { st.result_buffer }
    ELSE { st.result_buffer } \cup BuffersOf(a, Tail(rows), RowLoop(a, Head(rows), st))

\* the rows of the page query that is about to be made
PageRows ==
    INDEX_QUERIES(indexes, documents, scan_args.index_id, scan_args.read_timestamp,
                  lower, upper, scan_args.order, batch_size(scan_args.size_hint))

\* C40: in _index_scan_inner the results held in result_buffer, between pages
\* and after every row of a page, have keys of at least
\* MAX_INDEX_KEY_PREFIX_LEN bytes that agree on their first
\* MAX_INDEX_KEY_PREFIX_LEN bytes, and the assertion that the buffer is empty
\* when a shorter key is processed never fails.
C40_BufferSharesPrefix ==
    /\ [] ( scan_pc # "assert" /\ stream # "assert" )
    /\ [] SamePrefix(result_buffer)
    /\ [][ (scan_pc = "query" /\ scan_pc' # "query") =>
             \A b \in BuffersOf(scan_args, PageRows,
                                [ lower |-> lower, upper |-> upper,
                                  result_buffer |-> result_buffer, batch |-> << >>,
                                  error |-> "none" ]) : SamePrefix(b) ]_vars

\* a page of one row, not the first page: the row has a short key, the
\* buffer came from the page before with a long key in it, and the page
\* yields the long key and then the short one
C40_Witness ==
    /\ scan_pc = "validate"
    /\ sql_statements >= 2
    /\ batch_rows = 1
    /\ result_buffer = << >>
    /\ Len(scan_batch) >= 2
    /\ Len(scan_batch[Len(scan_batch) - 1].key) >= MAX_INDEX_KEY_PREFIX_LEN
    /\ Len(scan_batch[Len(scan_batch)].key) < MAX_INDEX_KEY_PREFIX_LEN

\* within one page the buffer of one prefix is yielded for a long key of
\* another prefix, which is buffered in its place
C40_PrefixChangeReached ==
    /\ scan_pc = "validate"
    /\ batch_rows >= 2
    /\ scan_batch # << >>
    /\ result_buffer # << >>
    /\ SplitKey(scan_batch[Len(scan_batch)].key).prefix # SplitKey(result_buffer[1].key).prefix
    /\ Len(scan_batch[Len(scan_batch)].key) >= MAX_INDEX_KEY_PREFIX_LEN

================================================================================
